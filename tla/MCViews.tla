-------------------------------- MODULE MCViews --------------------------------
(* Orders and payments for Views: an order paid by card and two vouchers,  *)
(* one whose only payment is rejected, and a rejected one that is paid.    *)
EXTENDS Views, TLC

MCPaymentsOf == "o1" :> <<"card1", "voucher1", "voucher2">> @@ "o2" :> <<"bad">>
                  @@ "o3" :> <<"card3">>
MCDate       == "o1" :> "mon" @@ "o2" :> "tue" @@ "o3" :> "tue"
MCCustomer   == "o1" :> "ann" @@ "o2" :> "bob" @@ "o3" :> "ann"
MCType       == "card1" :> "card" @@ "voucher1" :> "voucher" @@ "voucher2" :> "voucher"
                  @@ "bad" :> "card" @@ "card3" :> "card"
MCValue      == "card1" :> 4 @@ "voucher1" :> 1 @@ "voucher2" :> 2 @@ "bad" :> 8
                  @@ "card3" :> 16
MCOrderVerdict   == [o \in Order |-> IF o = "o3" THEN "error" ELSE "clean"]
MCPaymentVerdict == [p \in Payment |-> IF p = "bad" THEN "error" ELSE "clean"]
===============================================================================
