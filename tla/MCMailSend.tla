----------------------------- MODULE MCMailSend -----------------------------
(* Instances of MailSend for TLC.                                          *)
EXTENDS MailSend

CONSTANT m1

OneMailbox == [j \in Jobs |-> m1]
(* Expires at the first tick, or never.                                    *)
SoonOrNever == {0, Never}
=============================================================================
