------------------------- MODULE MCSipTransactions -------------------------
(***************************************************************************)
(* Small instances of SipTransactions for TLC.                             *)
(***************************************************************************)
EXTENDS SipTransactions, TLC

CONSTANTS invite, bye, cancel, other, invite2, call1, call2

\* Two calls, for a gateway that takes one: the first can be hung up and
\* cancelled.  An OPTIONS belongs to no call.
AllMethods == (invite :> "INVITE") @@ (bye :> "BYE") @@ (cancel :> "CANCEL")
              @@ (invite2 :> "INVITE") @@ (other :> "OTHER")
AllCalls == (invite :> call1) @@ (bye :> call1) @@ (cancel :> call1)
            @@ (invite2 :> call2) @@ (other :> call2)

SomeMethods == [r \in Request |-> AllMethods[r]]
SomeCalls == [r \in Request |-> AllCalls[r]]
=============================================================================
