----------------------------- MODULE SpendPolicy -----------------------------
(* What a sender of the run command promises the network about its account,
   whatever hosts, batches and retries it takes: an output is given to at
   most one acknowledged transaction at a time, and to another only in a slot
   at least FinalityTimeoutSlots after the slot of the first.  This is the
   timeout of the code; the document asks for more than FinalityTimeoutSlots,
   which is not kept (RespendPastTimeout of Sender).

   The sender keeps its promise by what it remembers and what a host tells
   it, both of which lag behind; here the account is seen from outside.     *)
EXTENDS Integers

CONSTANT FinalityTimeoutSlots   \* finality_timeout_slots

VARIABLES
  slot,    \* the ledger's slot
  live,    \* outputs nothing has consumed yet
  known,   \* outputs that exist, or will if a transaction is consolidated
  spends   \* acknowledged transactions: id, outputs consumed, slot

policyVars == <<slot, live, known, spends>>

Init ==
  /\ slot = 0
  /\ live = known
  /\ spends = {}

\* Time passes.
Advance ==
  /\ slot' = slot + 1
  /\ UNCHANGED <<live, known, spends>>

\* The network consolidates, or another command pays in or takes out.
Move ==
  /\ known \subseteq known'
  /\ live' \subseteq known'
  /\ UNCHANGED <<slot, spends>>

\* One more transaction is acknowledged.
Spend ==
  /\ \E e \in spends' \ spends :
       /\ e.outs # {} /\ e.outs \subseteq known
       /\ \A o \in e.outs \cap live, d \in spends :
            o \in d.outs => slot >= d.slot + FinalityTimeoutSlots
       /\ spends' = spends \cup {e}
  /\ known \subseteq known'
  /\ UNCHANGED <<slot, live>>

Next == Advance \/ Move \/ Spend

Spec == Init /\ [][Next]_policyVars
=============================================================================
