------------------------- MODULE MC_NativeOnlyCard --------------------------
(* A page with two template-rendered cards, a success card with a dismiss *)
(* button and an info card without one, and one show() call.  Delays are  *)
(* ticks that keep the order of the code's delays (50 < 300 < 5000 ms).    *)
EXTENDS NativeOnlyCard

MC_MarkupCards == {"m1", "m2"}
MC_ShownCards == {"s1"}
MC_CardClasses == [c \in MC_MarkupCards |-> IF c = "m1" THEN {"success"} ELSE {}]
MC_HasButton == {"m1"}
MC_ShowVariants == {"info", "success"}

=============================================================================
