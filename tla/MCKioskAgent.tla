---------------------------- MODULE MCKioskAgent ----------------------------
(* Two announcements: one to be shown once, one at every login.            *)
EXTENDS KioskAgent, TLC
CONSTANTS once, login, s1
MCFeed == <<once, login>>
MCPolicy == (once :> "ONCE") @@ (login :> "EVERY_LOGIN")
MCmaxDisplayCount == (once :> 0) @@ (login :> 0)
=============================================================================
