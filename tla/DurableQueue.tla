---------------------------- MODULE DurableQueue ----------------------------
(***************************************************************************)
(* What the durable outbox promises about each queued delivery: an entry   *)
(* stays outstanding until the message was accepted by Telegram, was       *)
(* refused by it for good, or has used up its attempts; a closed entry is  *)
(* never opened again.  No worker, batch, pause or crash is visible here.  *)
(***************************************************************************)
EXTENDS Naturals

CONSTANTS Msgs,       \* the sends the bot may issue
          Entries,    \* the entries the queue may ever hold
          MaxTries,   \* attempts after which an entry may be given up
          None        \* the message of an entry that was never opened

VARIABLES status,     \* [Entries -> {"absent", "open", "closed"}]
          holds,      \* the message of each entry
          attempts,   \* claims of each entry so far
          accepted,   \* messages Telegram has accepted
          refused     \* messages Telegram has refused for good

qvars == <<status, holds, attempts, accepted, refused>>

QInit ==
  /\ status = [e \in Entries |-> "absent"]
  /\ holds = [e \in Entries |-> None]
  /\ attempts = [e \in Entries |-> 0]
  /\ accepted = {}
  /\ refused = {}

\* A failed send becomes an outstanding entry with no attempt yet.
Open(e, m) ==
  /\ status[e] = "absent"
  /\ status' = [status EXCEPT ![e] = "open"]
  /\ holds' = [holds EXCEPT ![e] = m]
  /\ UNCHANGED <<attempts, accepted, refused>>

\* Some outstanding entries are charged an attempt.
Attempt(S) ==
  /\ \A e \in S : status[e] = "open"
  /\ attempts' \in [Entries -> Nat]
  /\ \A e \in Entries : IF e \in S THEN attempts'[e] >= attempts[e]
                                   ELSE attempts'[e] = attempts[e]
  /\ UNCHANGED <<status, holds, accepted, refused>>

Settled(e) ==
  \/ holds[e] \in accepted \cup refused
  \/ attempts[e] >= MaxTries

\* Entries leave the queue only when they are settled.
Close(S) ==
  /\ \A e \in S : status[e] = "open" /\ Settled(e)
  /\ status' = [e \in Entries |-> IF e \in S THEN "closed" ELSE status[e]]
  /\ UNCHANGED <<holds, attempts, accepted, refused>>

Accept(m) ==
  /\ accepted' = accepted \cup {m}
  /\ UNCHANGED <<status, holds, attempts, refused>>

Refuse(m) ==
  /\ refused' = refused \cup {m}
  /\ UNCHANGED <<status, holds, attempts, accepted>>

QNext ==
  \/ \E e \in Entries, m \in Msgs : Open(e, m)
  \/ \E S \in SUBSET Entries : Attempt(S) \/ Close(S)
  \/ \E m \in Msgs : Accept(m) \/ Refuse(m)

QSpec == QInit /\ [][QNext]_qvars
=============================================================================
