--------------------------- MODULE VerdictLedger ---------------------------
(***************************************************************************)
(* The Sentinel verdict ledger of verdict_ledger.rs: the verdicts and two  *)
(* indexes of the finally approved ones, by transaction and by context.    *)
(* Each of the three maps has a lock of its own, and recording a final     *)
(* approval takes them one after the other: three steps of a thread, with  *)
(* other threads reading and writing in between. Nothing is ever removed,  *)
(* so verdicts is a sequence and a verdict id is a position in it.         *)
(***************************************************************************)
EXTENDS Integers, Sequences

CONSTANTS
  Threads,     \* the threads that record approvals
  Approvals,   \* what they record: gov_tx_id, session_id, direction, and the
               \* context_hash and run_id, both NoContext on the plain-text path
  NoContext

VARIABLES
  verdicts,             \* every VerdictRecord, in order
  approved_by_tx,       \* <<gov_tx_id, session_id>> -> verdict id
  approved_by_context,  \* <<context_hash, session_id>> -> verdict id
  publishing            \* where a thread stands in record_final_approved_inner

ledger == <<verdicts, approved_by_tx, approved_by_context, publishing>>

NotPublishing == [next |-> "none", id |-> 0]

Verdict(a) ==
  [gov_tx_id |-> a.gov_tx_id, session_id |-> a.session_id, direction |-> a.direction,
   context_hash |-> a.context_hash, run_id |-> a.run_id, final_approved |-> TRUE]

-----------------------------------------------------------------------------
(* Lookups.                                                                *)

NoVerdict == 0

Lookup(index, key) == IF key \in DOMAIN index THEN index[key] ELSE NoVerdict

approved_verdict_id(tx, session) == Lookup(approved_by_tx, <<tx, session>>)

approved_verdict_id_by_context(context, session) ==
  Lookup(approved_by_context, <<context, session>>)

resolve_by_context(id, session) ==
  IF id \notin DOMAIN verdicts THEN "NotFound"
  ELSE IF verdicts[id].session_id # session THEN "SessionMismatch"
  ELSE "Found"

-----------------------------------------------------------------------------
(* Writes.                                                                 *)

Put(index, key, id) ==
  [k \in DOMAIN index \cup {key} |-> IF k = key THEN id ELSE index[k]]

\* record_final_approved(_with_context): the verdict first ...
RecordFinalApproved(t, a) ==
  /\ publishing[t] = NotPublishing
  /\ verdicts' = Append(verdicts, Verdict(a))
  /\ publishing' = [publishing EXCEPT ![t] = [next |-> "tx", id |-> Len(verdicts) + 1]]
  /\ UNCHANGED <<approved_by_tx, approved_by_context>>

OwnVerdict(t) == publishing[t].id

\* ... then the index by transaction ...
IndexByTx(t) ==
  /\ publishing[t].next = "tx"
  /\ LET id == OwnVerdict(t)
         v  == verdicts[publishing[t].id] IN
     /\ approved_by_tx' = Put(approved_by_tx, <<v.gov_tx_id, v.session_id>>, id)
     /\ publishing' = [publishing EXCEPT ![t] =
                         IF v.context_hash = NoContext THEN NotPublishing
                         ELSE [publishing[t] EXCEPT !.next = "context"]]
  /\ UNCHANGED <<verdicts, approved_by_context>>

\* ... and, when a context was approved, the index by context.
IndexByContext(t) ==
  /\ publishing[t].next = "context"
  /\ LET id == OwnVerdict(t)
         v  == verdicts[publishing[t].id] IN
     approved_by_context' = Put(approved_by_context, <<v.context_hash, v.session_id>>, id)
  /\ publishing' = [publishing EXCEPT ![t] = NotPublishing]
  /\ UNCHANGED <<verdicts, approved_by_tx>>

LedgerInit ==
  /\ verdicts = <<>>
  /\ approved_by_tx = [k \in {} |-> NoVerdict]
  /\ approved_by_context = [k \in {} |-> NoVerdict]
  /\ publishing = [t \in Threads |-> NotPublishing]
=============================================================================
