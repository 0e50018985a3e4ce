------------------------ MODULE MC_NotificationCard ------------------------
(* A page with one template-rendered success card that has a dismiss      *)
(* button, one info card delivered by AJAX without one, one Drupal status  *)
(* message, and one programmatic show()/init() call.  Delays are in ticks  *)
(* that keep the order of the code's delays (50 < 300 < 5000 ms).          *)
EXTENDS NotificationCard

MC_MarkupCards == {"m1"}
MC_AjaxCards == {"a1"}
MC_ShownCards == {"s1", "s2"}
MC_Messages == {"d1"}
MC_CardClasses == [c \in MC_MarkupCards \cup MC_AjaxCards |->
                      IF c = "m1" THEN {"success"} ELSE {}]
MC_HasButton == {"m1"}
MC_OptOut == {}
MC_MsgTypes == [m \in MC_Messages |-> {"status"}]
MC_ShowVariants == {"info", "success"}
MC_ShowDurations == {0, 3}

=============================================================================
