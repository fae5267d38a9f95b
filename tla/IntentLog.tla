------------------------------ MODULE IntentLog ------------------------------
(***************************************************************************)
(* What pgop's intent logs promise: a durable record of changes to         *)
(* something outside (privileges in PostgreSQL) that nothing else can tell *)
(* apart from the changes other people made.  An item is recorded before   *)
(* it is made and forgotten only after it is gone; one step does one thing *)
(* at a time, so there is no moment at which losing the writer loses track *)
(* of an item it made.                                                     *)
(***************************************************************************)
EXTENDS Naturals

CONSTANT Items

VARIABLES
  record,  \* the items in the durable log
  made     \* the items that were made and still are

Init == record \subseteq Items /\ made = {}

\* The intent to make some items is written down.
Announce ==
  /\ record \subseteq record' /\ record' \subseteq Items
  /\ made' = made

\* Announced items are made.
Make ==
  /\ made \subseteq made' /\ made' \subseteq record
  /\ record' = record

\* Items are undone, by the owner of the log or by somebody else.
Withdraw ==
  /\ made' \subseteq made
  /\ record' = record

\* Items that are not, or were never, made leave the log.
Forget ==
  /\ record' \subseteq record /\ made \subseteq record'
  /\ made' = made

Next == Announce \/ Make \/ Withdraw \/ Forget

Spec == Init /\ [][Next]_<<record, made>>
==============================================================================
