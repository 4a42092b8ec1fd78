CONSTANTS
  Handlers = {h1, h2}
  h1 = h1
  h2 = h2
  h3 = h3
  k1 = k1
  k2 = k2
  apple = apple
  pear = pear
  None = None
  Keys = {k1, k2}
  Batches = {1, 2}
  Products = {apple, pear}
  ProductOf <- MCProductOf
  Received <- MCReceived
  Threshold <- MCThreshold
  Requests <- ManyRequests
SPECIFICATION Spec
INVARIANT Conserved
