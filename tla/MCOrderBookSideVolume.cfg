\* OrderSide.Volume against its comment.
CONSTANTS
  OrderID = {o1, o2}
  nil = nil
  Price <- MCPrice
  Quantity <- MCQuantity
  MaxArrivals = 2
SPECIFICATION Spec
PROPERTY SideVolumeExact
