\* Every payment case at once: two types, two rows under one key, a rejected one.
CONSTANTS
  Order = {"o1", "o2", "o3"}
  Payment = {"card1", "voucher1", "voucher2", "bad", "card3"}
  PaymentsOf <- MCPaymentsOf
  Date <- MCDate
  Customer <- MCCustomer
  Type <- MCType
  Value <- MCValue
  OrderVerdict <- MCOrderVerdict
  PaymentVerdict <- MCPaymentVerdict
  NoRow = "none"
SPECIFICATION FairSpec
INVARIANT
  CountsOnlyValidPairs

  
