--------------------------- MODULE PaymentsProofs ---------------------------
(***************************************************************************)
(* What is proved of Payments, for any payers, deliveries and amounts, and *)
(* for the mishaps that each theorem allows.                               *)
(***************************************************************************)
EXTENDS Payments, FiniteSetTheorems, TLAPS

\* A step of an actor leaves everyone else's place alone.
LEMMA GoesPlace ==
    ASSUME TypeOK, NEW a \in Actor, NEW from, NEW to \in Place, Goes(a, from, to)
    PROVE  at' \in [Actor -> Place] /\ at[a] = from /\ at'[a] = to
           /\ \A b \in Actor \ {a} : at'[b] = at[b]
  BY DEF TypeOK, Goes

\* A handler is an actor, of the payment of a payer.
LEMMA HookParts ==
    ASSUME NEW h \in Hook
    PROVE  h \in Actor /\ h[1] \in Payer
  BY DEF Hook, Actor

\* So is a payer.
LEMMA PayerIsActor == ASSUME NEW p \in Payer PROVE p \in Actor
  BY DEF Actor

\* The open balance never gets below zero.
LEMMA SettledNat ==
    ASSUME TypeOK, NEW amount \in Nat
    PROVE  Settled(amount) \in Nat
  BY DEF TypeOK, Settled

\* What a payer keeps has its types.
LEMMA CallFields ==
    ASSUME TypeOK, NEW p \in Payer
    PROVE  /\ call[p].kind \in {"card", "debit"}
           /\ call[p].amount \in Nat /\ call[p].fee \in Nat
           /\ call[p].snapDebit \in Nat /\ call[p] \in Call
  BY DEF TypeOK, Call

\* The places that actions name.
LEMMA Places ==
    /\ Undoing \cup Moved \cup HookStep \cup HookMoved \cup Ended \subseteq Place
    /\ {"idle", "lock", "event", "hook_lock"} \subseteq Place
  BY DEF Place, Holding

\* A call that fails keeps the types.
LEMMA FailsType ==
    ASSUME TypeOK, NEW a \in Actor, NEW from, NEW to \in Place, Fails(a, from, to)
    PROVE  TypeOK'
  <1>1. at' \in [Actor -> Place]
    BY GoesPlace DEF Fails
  <1> QED  BY <1>1 DEF Fails, TypeOK, docVars, priorityVars, stripeVars

\* So does the transaction that records a payment.
LEMMA PersistsType ==
    ASSUME TypeOK, NEW p \in Payer, NEW s \in IntentStatus, Persists(p, s)
    PROVE  pis' \in [Payer -> Intent] /\ UNCHANGED <<locked, debit>>
  BY CallFields DEF Persists, TypeOK, Intent

\* A payment that is booked is still one.
LEMMA BookedIntent ==
    ASSUME NEW i \in Intent, NEW r \in Nat, NEW d \in Nat
    PROVE  /\ [i EXCEPT !.status = "succeeded", !.received = r] \in Intent
           /\ [i EXCEPT !.status = "succeeded", !.received = r, !.debit = d] \in Intent
  BY DEF Intent, IntentStatus

\* Every step of a payer keeps the types.
LEMMA PayerType ==
    ASSUME PaymentsAssumption, TypeOK, NEW p \in Payer, Read(p) \/ PayerWorks(p)
    PROVE  TypeOK'
  <1> USE DEF docVars, priorityVars, stripeVars
  <1>p. p \in Actor
    BY PayerIsActor
  <1>g. ASSUME NEW from, NEW to \in Place, Goes(p, from, to)
        PROVE  at' \in [Actor -> Place]
    BY <1>p, <1>g, GoesPlace
  <1>c. call[p].kind \in {"card", "debit"} /\ call[p].amount \in Nat /\ call[p].fee \in Nat
    BY CallFields
  <1>1. CASE Read(p)
    <2>1. PICK k \in Kind, a \in Amount \cup {Whole}, f \in {0, Fee} :
            call' = [call EXCEPT ![p] = [kind |-> k, amount |-> a, fee |-> f, seen |-> 0,
                                         snap |-> pis, snapDebit |-> debit]]
      BY <1>1 DEF Read
    <2>2. [kind |-> k, amount |-> a, fee |-> f, seen |-> 0, snap |-> pis, snapDebit |-> debit] \in Call
      <3>1. k \in {"card", "debit"} /\ a \in Nat /\ f \in Nat
        BY PaymentsAssumption DEF Whole
      <3> QED  BY <3>1 DEF TypeOK, Call
    <2>3. at' \in [Actor -> Place]
      BY <1>1, <1>g, Places DEF Read
    <2> QED  BY <1>1, <2>1, <2>2, <2>3 DEF Read, TypeOK
  <1>2. CASE Lock(p)
    <2>1. at' \in [Actor -> Place]
      BY <1>2, <1>g, Places DEF Lock, Undoing, Ended
    <2> QED  BY <1>2, <2>1 DEF Lock, TypeOK
  <1>3. CASE Check(p)
    <2> DEFINE amount == IF call[p].amount = Whole THEN open ELSE call[p].amount
    <2>1. PICK to \in {"unlock", "fees", "charge"} : Goes(p, "check", to)
      BY <1>3 DEF Check
    <2>2. at' \in [Actor -> Place]
      BY <2>1, <1>g, Places DEF Undoing
    <2>3. amount \in Nat /\ open \in Nat
      BY <1>c DEF TypeOK
    <2>4. call' = [call EXCEPT ![p] = [call[p] EXCEPT !.amount = amount, !.seen = open,
                                             !.snap = NoIntents, !.snapDebit = 0]]
      BY <1>3 DEF Check, TypeOK, Call
    <2>5. NoIntents \in [Payer -> Intent]
      BY DEF NoIntents, NoIntent, Intent, IntentStatus
    <2>6. [call[p] EXCEPT !.amount = amount, !.seen = open, !.snap = NoIntents,
                          !.snapDebit = 0] \in Call
      BY ZenonT(90), <2>3, <2>5, CallFields DEF Call
    <2>7. call' \in [Payer -> Call]
      BY <2>4, <2>6 DEF TypeOK
    <2> QED  BY <1>3, <2>2, <2>7 DEF Check, TypeOK
  <1>4. CASE Unlock(p)
    <2>1. at' \in [Actor -> Place]
      BY <1>4, <1>g, Places DEF Unlock, Ended
    <2> QED  BY <1>4, <2>1 DEF Unlock, TypeOK
  <1>5. CASE CreateFeesInvoice(p)
    <2>1. at' \in [Actor -> Place]
      BY <1>5, <1>g, Places DEF CreateFeesInvoice, Undoing
    <2> QED  BY <1>5, <2>1 DEF CreateFeesInvoice, TypeOK, Document
  <1>6. CASE CreateReceipt(p)
    <2>1. at' \in [Actor -> Place]
      BY <1>6, <1>g, Places DEF CreateReceipt, Undoing
    <2> QED  BY <1>6, <2>1 DEF CreateReceipt, TypeOK, Document
  <1>7. CASE Authorize(p)
    <2>1. at' \in [Actor -> Place]
      BY <1>7, <1>g, Places DEF Authorize, Undoing
    <2> QED  BY <1>7, <2>1 DEF Authorize, TypeOK, IntentStatus
  <1>8. CASE PersistCard(p)
    <2>1. at' \in [Actor -> Place]
      BY <1>8, <1>g, Places DEF PersistCard, Undoing
    <2>2. pis' \in [Payer -> Intent] /\ UNCHANGED <<locked, debit>>
      BY <1>8, PersistsType DEF PersistCard, TypeOK, IntentStatus
    <2> QED  BY <1>8, <2>1, <2>2 DEF PersistCard, TypeOK
  <1>9. CASE Capture(p)
    <2>1. at' \in [Actor -> Place]
      BY <1>9, <1>g, Places DEF Capture, Undoing, Moved
    <2> QED  BY <1>9, <2>1 DEF Capture, TypeOK, IntentStatus
  <1>10. CASE CancelIntent(p)
    <2>1. at' \in [Actor -> Place]
      BY <1>10, <1>g, Places DEF CancelIntent, Undoing
    <2> QED  BY <1>10, <2>1 DEF CancelIntent, TypeOK, IntentStatus
  <1>11. CASE RecordCancel(p)
    <2>1. at' \in [Actor -> Place]
      BY <1>11, <1>g, Places DEF RecordCancel, Undoing
    <2> QED  BY <1>11, <2>1 DEF RecordCancel, TypeOK, Intent, IntentStatus
  <1>12. CASE Cleanup(p)
    <2>1. at' \in [Actor -> Place]
      BY <1>12, <1>g, Places DEF Cleanup, Undoing
    <2> QED  BY ZenonT(60), <1>p, <1>12, <2>1 DEF Cleanup, AfterDelete, TypeOK, Document
  <1>13. CASE ApproveFees(p)
    <2>1. at' \in [Actor -> Place]
      BY <1>13, <1>g, Places DEF ApproveFees, Moved
    <2> QED  BY <1>13, <2>1 DEF ApproveFees, TypeOK, Document
  <1>14. CASE BookCard(p)
    <2>1. at' \in [Actor -> Place]
      BY <1>14, <1>g, Places DEF BookCard, Moved
    <2>2. call[p].amount + call[p].fee \in Nat /\ pis[p] \in Intent
      BY SMTT(40), <1>c DEF TypeOK
    <2>3. [pis[p] EXCEPT !.status = "succeeded", !.received = call[p].amount + call[p].fee]
            \in Intent
      BY Zenon, <2>2, BookedIntent
    <2>4. pis' = [pis EXCEPT ![p] = [pis[p] EXCEPT !.status = "succeeded",
                                        !.received = call[p].amount + call[p].fee]]
      BY <1>14, Zenon DEF BookCard
    <2>5. pis' \in [Payer -> Intent]
      BY <2>3, <2>4 DEF TypeOK
    <2> QED  BY <1>14, <2>1, <2>5 DEF BookCard, TypeOK
  <1>15. CASE PatchReceipt(p)
    <2>1. at' \in [Actor -> Place]
      BY <1>15, <1>g, Places DEF PatchReceipt, Moved, Ended
    <2> QED  BY <1>15, <2>1 DEF PatchReceipt, TypeOK
  <1>16. CASE ApproveReceipt(p)
    <2>1. at' \in [Actor -> Place]
      BY <1>16, <1>g, Places DEF ApproveReceipt, Moved
    <2>2. open' \in Nat
      BY <1>16, <1>c, SettledNat DEF ApproveReceipt
    <2> QED  BY <1>16, <2>1, <2>2 DEF ApproveReceipt, TypeOK, Document
  <1>17. CASE TagCard(p)
    <2>1. at' \in [Actor -> Place]
      BY <1>17, <1>g, Places DEF TagCard, Undoing
    <2> QED  BY <1>17, <2>1 DEF TagCard, TypeOK
  <1>18. CASE ChargeBank(p)
    <2>1. at' \in [Actor -> Place]
      BY <1>18, <1>g, Places DEF ChargeBank, Undoing, Moved
    <2> QED  BY <1>18, <2>1 DEF ChargeBank, TypeOK, IntentStatus
  <1>19. CASE PersistDebit(p)
    <2>1. at' \in [Actor -> Place]
      BY <1>19, <1>g, Places DEF PersistDebit, Undoing, Ended
    <2>2. pis' \in [Payer -> Intent] /\ UNCHANGED <<locked, debit>>
      BY <1>19, PersistsType DEF PersistDebit, TypeOK, IntentStatus
    <2> QED  BY <1>19, <2>1, <2>2 DEF PersistDebit, TypeOK
  <1>20. CASE PayerCallFails(p)
    <2>1. \E to \in {"unlock", "cleanup", "kept", "returned", "stuck"} : \E s : Fails(p, s, to)
      BY <1>20 DEF PayerCallFails
    <2>2. PICK to \in {"unlock", "cleanup", "kept", "returned", "stuck"} : \E s : Fails(p, s, to)
      BY <2>1
    <2>3. to \in Place
      BY Places DEF Undoing, Ended
    <2> QED  BY <1>p, <2>2, <2>3, FailsType
  <1> QED
    BY <1>1, <1>2, <1>3, <1>4, <1>5, <1>6, <1>7, <1>8, <1>9, <1>10, <1>11, <1>12, <1>13,
       <1>14, <1>15, <1>16, <1>17, <1>18, <1>19, <1>20 DEF PayerWorks

\* Every step of Stripe and of the handler of its events keeps the types.
LEMMA HookType ==
    ASSUME TypeOK, NEW h \in Hook, Deliver(h) \/ HookWorks(h)
    PROVE  TypeOK'
  <1> USE DEF docVars, priorityVars, stripeVars
  <1>h. h \in Actor /\ h[1] \in Payer
    BY HookParts
  <1>g. ASSUME NEW from, NEW to \in Place, Goes(h, from, to)
        PROVE  at' \in [Actor -> Place]
    BY <1>h, <1>g, GoesPlace
  <1>c. call[h[1]].amount \in Nat
    BY <1>h, CallFields
  <1>1. CASE Deliver(h)
    <2>1. at' \in [Actor -> Place]
      BY <1>1, <1>g, Places DEF Deliver
    <2> QED  BY <1>1, <2>1 DEF Deliver, TypeOK
  <1>2. CASE HookReads(h)
    <2>1. at' \in [Actor -> Place]
      BY <1>2, <1>g, Places DEF HookReads, Ended
    <2>2. pis' \in [Payer -> Intent]
      BY SMTT(40), <1>2, <1>h DEF HookReads, TypeOK, Intent, IntentStatus
    <2> QED  BY <1>2, <2>1, <2>2 DEF HookReads, TypeOK
  <1>3. CASE HookLocks(h)
    <2>1. at' \in [Actor -> Place]
      BY <1>3, <1>g, Places DEF HookLocks, HookStep, Ended
    <2> QED  BY <1>3, <2>1 DEF HookLocks, TypeOK
  <1>4. CASE HookGets(h)
    <2>1. at' \in [Actor -> Place]
      BY <1>4, <1>g, Places DEF HookGets, HookStep
    <2> QED  BY <1>4, <2>1 DEF HookGets, TypeOK
  <1>5. CASE HookDrafts(h)
    <2>1. at' \in [Actor -> Place]
      BY <1>5, <1>g, Places DEF HookDrafts, HookStep
    <2> QED  BY <1>5, <2>1 DEF HookDrafts, TypeOK, Document
  <1>6. CASE HookPatches(h)
    <2>1. at' \in [Actor -> Place]
      BY <1>6, <1>g, Places DEF HookPatches, HookStep, HookMoved
    <2> QED  BY <1>6, <2>1 DEF HookPatches, TypeOK
  <1>7. CASE HookApproves(h)
    <2>1. at' \in [Actor -> Place]
      BY <1>7, <1>g, Places DEF HookApproves, HookMoved
    <2>2. open' \in Nat
      BY <1>7, <1>c, SettledNat DEF HookApproves
    <2> QED  BY <1>7, <2>1, <2>2 DEF HookApproves, TypeOK, Document
  <1>8. CASE HookTags(h)
    <2>1. at' \in [Actor -> Place]
      BY <1>8, <1>g, Places DEF HookTags, HookMoved
    <2> QED  BY <1>8, <1>h, <2>1 DEF HookTags, TypeOK
  <1>9. CASE HookBooks(h)
    <2> DEFINE p == h[1]
    <2>1. at' \in [Actor -> Place]
      BY <1>9, <1>g, Places DEF HookBooks, HookStep
    <2>2. call[p].amount \in Nat /\ pis[p] \in Intent /\ debit \in Nat
      BY SMTT(40), <1>c, <1>h DEF TypeOK
    <2>3. [pis[p] EXCEPT !.status = "succeeded", !.received = call[p].amount, !.debit = debit]
            \in Intent
      BY Zenon, <2>2, BookedIntent
    <2>4. pis' = [pis EXCEPT ![p] = [pis[p] EXCEPT !.status = "succeeded",
                                        !.received = call[p].amount, !.debit = debit]]
      BY <1>9, Zenon DEF HookBooks
    <2>5. pis' \in [Payer -> Intent]
      BY <2>3, <2>4 DEF TypeOK
    <2> QED  BY <1>9, <1>h, <2>1, <2>5 DEF HookBooks, TypeOK
  <1>10. CASE HookUnlocks(h)
    <2>1. at' \in [Actor -> Place]
      BY <1>10, <1>g, Places DEF HookUnlocks, Ended
    <2> QED  BY <1>10, <2>1 DEF HookUnlocks, TypeOK
  <1>11. CASE HookCallFails(h)
    <2>1. \E to \in {"lost", "hook_unlock", "kept", "stuck"} : \E s : Fails(h, s, to)
      BY <1>11 DEF HookCallFails
    <2>2. PICK to \in {"lost", "hook_unlock", "kept", "stuck"} : \E s : Fails(h, s, to)
      BY <2>1
    <2>3. to \in Place
      BY Places DEF HookStep, Ended
    <2> QED  BY <1>h, <2>2, <2>3, FailsType
  <1> QED
    BY <1>1, <1>2, <1>3, <1>4, <1>5, <1>6, <1>7, <1>8, <1>9, <1>10, <1>11 DEF HookWorks

\* What a place may be, at a crash and when nobody moves.
LEMMA OtherType ==
    ASSUME TypeOK, \/ \E p \in Payer : SettleDebit(p)
                   \/ \E a \in Actor : Crash(a)
                   \/ Synchronise
                   \/ UNCHANGED vars
    PROVE  TypeOK'
  <1> USE DEF docVars, priorityVars, stripeVars, vars
  <1>1. CASE \E p \in Payer : SettleDebit(p)
    BY <1>1 DEF SettleDebit, TypeOK, IntentStatus
  <1>2. ASSUME NEW a \in Actor, Crash(a) PROVE TypeOK'
    <2>1. {"dead", "lost"} \subseteq Place
      BY Places DEF Ended
    <2>2. at' \in [Actor -> Place]
      BY <1>2, <2>1 DEF Crash, TypeOK
    <2> QED  BY <1>2, <2>2 DEF Crash, TypeOK
  <1>3. CASE Synchronise
    <2>1. open..Total \subseteq Nat
      BY PaymentsAssumption DEF TypeOK
    <2> QED  BY <1>3, <2>1 DEF Synchronise, TypeOK
  <1>4. CASE UNCHANGED vars
    BY <1>4 DEF TypeOK
  <1> QED  BY <1>1, <1>2, <1>3, <1>4

\* Type correctness, for any payers, deliveries and mishaps.
THEOREM TypeCorrect == Spec => []TypeOK
  <1>1. Init => TypeOK
    <2> SUFFICES ASSUME Init PROVE TypeOK
      OBVIOUS
    <2>1. NoIntent \in Intent /\ NoIntents \in [Payer -> Intent]
      BY DEF NoIntents, NoIntent, Intent, IntentStatus
    <2>2. NoCall \in Call
      BY <2>1 DEF NoCall, Call, Whole
    <2>3. at \in [Actor -> Place]
      BY Places DEF Init
    <2>4. "none" \in IntentStatus /\ "none" \in Document /\ Total \in Nat
      BY PaymentsAssumption DEF IntentStatus, Document
    <2> QED  BY <2>1, <2>2, <2>3, <2>4 DEF Init, TypeOK
  <1>2. TypeOK /\ [Next]_vars => TypeOK'
    BY PaymentsAssumption, PayerType, HookType, OtherType DEF Next
  <1> QED  BY <1>1, <1>2, PTL DEF Spec

-----------------------------------------------------------------------------
(* The lock.  An actor blocks the others while it holds the lock, and for  *)
(* ever after when it leaves the invoice locked.  It enters the places of  *)
(* Blocking only by taking a lock that is free, and the lock changes only  *)
(* when an actor enters or leaves them.                                    *)

Blocking == Holding \cup {"kept", "stuck", "dead"}

Blocks(a) == at[a] \in Blocking

LockOwned ==
    /\ \A a \in Actor : Blocks(a) => locked
    /\ \A a, b \in Actor : Blocks(a) /\ Blocks(b) => a = b

\* Which places block.
LEMMA Holdings ==
    /\ Undoing \subseteq Blocking /\ Moved \subseteq Blocking
    /\ HookStep \subseteq Blocking /\ HookMoved \subseteq Blocking
    /\ Holding \subseteq Blocking
    /\ {"kept", "stuck", "dead"} \subseteq Blocking
    /\ {"returned", "lost"} \cap Blocking = {}
    /\ {"idle", "lock", "event", "hook_lock"} \cap Blocking = {}
  BY DEF Blocking, Holding, Undoing, Moved, HookStep, HookMoved

\* One actor moves: it takes a free lock, or moves with the lock or leaves it, or has
\* nothing to do with it.
LEMMA HoldsStep ==
    ASSUME TypeOK, LockOwned, NEW a \in Actor, NEW from, NEW to, Goes(a, from, to),
           \/ ~locked /\ locked'
           \/ from \in Blocking /\ to \in Blocking /\ UNCHANGED locked
           \/ from \in Blocking /\ to \notin Blocking
           \/ from \notin Blocking /\ to \notin Blocking /\ UNCHANGED locked
    PROVE  LockOwned'
  <1>1. \A b \in Actor : b # a => (Blocks(b)' <=> Blocks(b))
    BY DEF Goes, Blocks, TypeOK
  <1>2. (Blocks(a) <=> from \in Blocking) /\ (Blocks(a)' <=> to \in Blocking)
    BY DEF Goes, Blocks, TypeOK
  <1>3. CASE ~locked /\ locked'
    BY <1>1, <1>3 DEF LockOwned
  <1>4. CASE from \in Blocking /\ to \in Blocking /\ UNCHANGED locked
    BY <1>1, <1>2, <1>4 DEF LockOwned
  <1>5. CASE from \in Blocking /\ to \notin Blocking
    BY <1>1, <1>2, <1>5 DEF LockOwned
  <1>6. CASE from \notin Blocking /\ to \notin Blocking /\ UNCHANGED locked
    BY <1>1, <1>2, <1>6 DEF LockOwned
  <1> QED  BY <1>3, <1>4, <1>5, <1>6

\* A payer takes the lock once and leaves it once.
LEMMA PayerLocks ==
    ASSUME TypeOK, LockOwned, NEW p \in Payer, Read(p) \/ PayerWorks(p)
    PROVE  LockOwned'
  <1> USE DEF docVars, priorityVars, stripeVars
  <1>p. p \in Actor
    BY PayerIsActor
  <1>h. ASSUME NEW from \in Blocking, NEW to, Goes(p, from, to), UNCHANGED locked
        PROVE  LockOwned'
    BY <1>p, <1>h, HoldsStep
  <1>1. CASE Read(p)
    BY <1>p, <1>1, HoldsStep, Holdings DEF Read
  <1>2. CASE Lock(p)
    BY <1>p, <1>2, HoldsStep, Holdings DEF Lock, Ended
  <1>3. CASE Check(p)
    BY <1>3, <1>h, Holdings DEF Check, Undoing
  <1>4. CASE Unlock(p)
    BY <1>p, <1>4, HoldsStep, Holdings DEF Unlock, Undoing, Ended
  <1>5. CASE CreateFeesInvoice(p) \/ CreateReceipt(p)
    BY <1>5, <1>h, Holdings DEF CreateFeesInvoice, CreateReceipt, Undoing
  <1>6. CASE Authorize(p)
    BY <1>6, <1>h, Holdings DEF Authorize, Undoing
  <1>7. CASE PersistCard(p)
    BY <1>7, <1>h, Holdings DEF PersistCard, Persists, Undoing
  <1>8. CASE Capture(p)
    BY <1>8, <1>h, Holdings DEF Capture, Undoing
  <1>9. CASE CancelIntent(p)
    BY <1>9, <1>h, Holdings DEF CancelIntent, Undoing
  <1>10. CASE RecordCancel(p) \/ Cleanup(p)
    BY <1>10, <1>h, Holdings DEF RecordCancel, Cleanup, Undoing
  <1>11. CASE ApproveFees(p) \/ BookCard(p)
    BY <1>11, <1>h, Holdings DEF ApproveFees, BookCard, Moved
  <1>12. CASE PatchReceipt(p)
    BY <1>12, <1>h, Holdings DEF PatchReceipt, Moved
  <1>13. CASE ApproveReceipt(p) \/ TagCard(p)
    BY <1>13, <1>h, Holdings DEF ApproveReceipt, TagCard, Moved
  <1>14. CASE ChargeBank(p)
    BY <1>14, <1>h, Holdings DEF ChargeBank, Undoing
  <1>15. CASE PersistDebit(p)
    BY <1>15, <1>h, Holdings DEF PersistDebit, Persists, Moved
  <1>16. CASE PayerCallFails(p)
    <2>1. ASSUME NEW s \in Blocking, NEW to, Fails(p, s, to) PROVE LockOwned'
      BY <1>h, <2>1 DEF Fails
    <2>2. CASE \E s \in {"check", "fees", "charge"} : Fails(p, s, "unlock")
      BY <2>1, <2>2, Holdings DEF Undoing
    <2>3. CASE \E s \in {"receipt", "persist", "record_cancel", "cancel"} : Fails(p, s, "cleanup")
      BY <2>1, <2>3, Holdings DEF Undoing
    <2>4. CASE \E s \in Moved \ {"tag"} : Fails(p, s, "kept")
      BY <2>1, <2>4, Holdings
    <2>5. CASE Fails(p, "lock", "returned")
      BY <1>p, <2>5, HoldsStep, Holdings DEF Fails, Ended
    <2>6. CASE Fails(p, "unlock", "stuck")
      BY <2>1, <2>6, Holdings DEF Undoing
    <2> QED  BY <1>16, <2>2, <2>3, <2>4, <2>5, <2>6 DEF PayerCallFails
  <1> QED
    BY <1>1, <1>2, <1>3, <1>4, <1>5, <1>6, <1>7, <1>8, <1>9, <1>10, <1>11, <1>12, <1>13,
       <1>14, <1>15, <1>16 DEF PayerWorks

\* So does the handler of an event.
LEMMA HookLocksOnce ==
    ASSUME TypeOK, LockOwned, NEW h \in Hook, Deliver(h) \/ HookWorks(h)
    PROVE  LockOwned'
  <1> USE DEF docVars, priorityVars, stripeVars
  <1>a. h \in Actor
    BY HookParts
  <1>h. ASSUME NEW from \in Blocking, NEW to, Goes(h, from, to), UNCHANGED locked
        PROVE  LockOwned'
    BY <1>a, <1>h, HoldsStep
  <1>1. CASE Deliver(h)
    BY <1>a, <1>1, HoldsStep, Holdings DEF Deliver
  <1>2. CASE HookReads(h)
    BY <1>a, <1>2, HoldsStep, Holdings DEF HookReads, Ended
  <1>3. CASE HookLocks(h)
    BY <1>a, <1>3, HoldsStep, Holdings DEF HookLocks, Ended
  <1>4. CASE HookGets(h) \/ HookDrafts(h)
    BY <1>4, <1>h, Holdings DEF HookGets, HookDrafts, HookStep
  <1>5. CASE HookPatches(h)
    BY <1>5, <1>h, Holdings DEF HookPatches, HookStep
  <1>6. CASE HookApproves(h) \/ HookTags(h) \/ HookBooks(h)
    BY <1>6, <1>h, Holdings DEF HookApproves, HookTags, HookBooks, HookMoved
  <1>7. CASE HookUnlocks(h)
    BY <1>a, <1>7, HoldsStep, Holdings DEF HookUnlocks, HookStep, Ended
  <1>8. CASE HookCallFails(h)
    <2>1. ASSUME NEW s \in Blocking, NEW to, Fails(h, s, to) PROVE LockOwned'
      BY <1>h, <2>1 DEF Fails
    <2>2. CASE \E s \in {"event", "hook_lock"} : Fails(h, s, "lost")
      BY <1>a, <2>2, HoldsStep, Holdings DEF Fails, Ended
    <2>3. CASE \E s \in {"get", "draft", "patch_draft"} : Fails(h, s, "hook_unlock")
      BY <2>1, <2>3, Holdings DEF HookStep
    <2>4. CASE \E s \in HookMoved : Fails(h, s, "kept")
      BY <2>1, <2>4, Holdings
    <2>5. CASE Fails(h, "hook_unlock", "stuck")
      BY <2>1, <2>5, Holdings DEF HookStep
    <2> QED  BY <1>8, <2>2, <2>3, <2>4, <2>5 DEF HookCallFails
  <1> QED
    BY <1>1, <1>2, <1>3, <1>4, <1>5, <1>6, <1>7, <1>8 DEF HookWorks

\* An actor that dies leaves the lock where it is, and nobody else touches it.
LEMMA OthersLeaveLock ==
    ASSUME TypeOK, LockOwned,
           \/ \E p \in Payer : SettleDebit(p)
           \/ \E a \in Actor : Crash(a)
           \/ Synchronise
           \/ UNCHANGED vars
    PROVE  LockOwned'
  <1> USE DEF docVars, priorityVars, stripeVars, vars
  <1>1. ASSUME UNCHANGED <<locked, at>> PROVE LockOwned'
    BY <1>1 DEF LockOwned, Blocks
  <1>2. ASSUME NEW a \in Actor, Crash(a) PROVE LockOwned'
    <2>1. UNCHANGED locked /\ \A b \in Actor : Blocks(b)' => Blocks(b)
      BY <1>2, Holdings DEF Crash, Holds, Blocks, TypeOK, Ended
    <2> QED  BY <2>1 DEF LockOwned
  <1> QED  BY <1>1, <1>2 DEF SettleDebit, Synchronise

\* Whoever blocks the others has the invoice locked, alone.
LEMMA LockIsOwned == Spec => []LockOwned
  <1>1. Init => LockOwned
    BY Holdings DEF Init, LockOwned, Blocks
  <1>2. TypeOK /\ LockOwned /\ [Next]_vars => LockOwned'
    BY PayerLocks, HookLocksOnce, OthersLeaveLock DEF Next
  <1> QED  BY <1>1, <1>2, TypeCorrect, PTL DEF Spec

\* The lock excludes, whatever fails, dies or is delivered twice, for any number of
\* payers and events.
THEOREM LockIsExclusive == Spec => []LockExcludes
  <1>1. LockOwned => LockExcludes
    BY Holdings DEF LockOwned, LockExcludes, Blocks, Holds
  <1> QED  BY <1>1, LockIsOwned, PTL


-----------------------------------------------------------------------------
(* What a payer does to its own payment, step by step.                     *)

CardPlace == {"fees", "receipt", "authorize", "persist", "capture", "cancel",
              "record_cancel", "cleanup", "approve_fees", "book", "patch", "approve", "tag"}
DebitPlace == {"charge", "persist_debit"}
Early == {"idle", "lock", "check", "fees", "receipt", "authorize", "charge"}

Untouched(p) == stripe[p] = "none" /\ pis[p].status = "none" /\ p \notin tagged

\* Where a payer is says which kind its payment is, that Stripe has not been asked for
\* money yet, and which documents cannot exist.
Flow(p) ==
    /\ at[p] \in CardPlace => call[p].kind = "card"
    /\ at[p] \in DebitPlace => call[p].kind = "debit"
    /\ at[p] \in Early \cup {"lost"} => Untouched(p)
    /\ at[p] \in {"persist", "persist_debit"} => pis[p].status = "none"
    /\ at[p] \in {"capture", "cancel", "record_cancel", "approve_fees", "book"} =>
          pis[p].status # "none"
    /\ at[p] \in {"idle", "lock", "check", "fees", "charge", "lost"} =>
          receipt[p] = "none" /\ fees[p] = "none"
    /\ call[p].kind = "debit" => receipt[p] = "none"
    /\ at[p] \in {"persist_debit", "kept"} => stripe[p] \in {"processing", "succeeded", "failed"}
    /\ at[p] \in Moved \ {"persist_debit"} => stripe[p] = "succeeded"
    /\ at[p] \notin {"event", "hook_lock"} \cup HookStep \cup HookMoved

\* The rest of the world.
PayerFrame(p) ==
    /\ \A q \in Payer \ {p} : /\ at'[q] = at[q] /\ call'[q] = call[q] /\ stripe'[q] = stripe[q]
                              /\ pis'[q] = pis[q] /\ fees'[q] = fees[q]
    /\ \A a \in Actor \ {p} : at'[a] = at[a] /\ receipt'[a] = receipt[a]
    /\ tagged' = tagged \/ (at[p] = "tag" /\ tagged' = tagged \cup {p})

\* A step of a payer leaves the payments of the others alone.
LEMMA PayerKeepsOthers ==
    ASSUME TypeOK, NEW p \in Payer, Read(p) \/ PayerWorks(p)
    PROVE  PayerFrame(p)
  <1> USE DEF docVars, priorityVars, stripeVars, Goes, PayerFrame
  <1>p. p \in Actor /\ Payer \subseteq Actor
    BY DEF Actor
  <1>1. CASE Read(p)
    BY <1>1, <1>p DEF Read, TypeOK
  <1>2. CASE Lock(p)
    BY <1>2, <1>p DEF Lock, TypeOK
  <1>3. CASE Check(p)
    BY <1>3, <1>p DEF Check, TypeOK
  <1>4. CASE Unlock(p)
    BY <1>4, <1>p DEF Unlock, TypeOK
  <1>5. CASE CreateFeesInvoice(p)
    BY <1>5, <1>p DEF CreateFeesInvoice, TypeOK
  <1>6. CASE CreateReceipt(p)
    BY <1>6, <1>p DEF CreateReceipt, TypeOK
  <1>7. CASE Authorize(p)
    BY <1>7, <1>p DEF Authorize, TypeOK
  <1>8. CASE PersistCard(p)
    BY <1>8, <1>p DEF PersistCard, TypeOK, Persists
  <1>9. CASE Capture(p)
    BY <1>9, <1>p DEF Capture, TypeOK
  <1>10. CASE CancelIntent(p)
    BY <1>10, <1>p DEF CancelIntent, TypeOK
  <1>11. CASE RecordCancel(p)
    BY <1>11, <1>p DEF RecordCancel, TypeOK
  <1>12. CASE Cleanup(p)
    BY <1>12, <1>p DEF Cleanup, TypeOK
  <1>13. CASE ApproveFees(p)
    BY <1>13, <1>p DEF ApproveFees, TypeOK
  <1>14. CASE BookCard(p)
    BY <1>14, <1>p DEF BookCard, TypeOK
  <1>15. CASE PatchReceipt(p)
    BY <1>15, <1>p DEF PatchReceipt, TypeOK
  <1>16. CASE ApproveReceipt(p)
    BY <1>16, <1>p DEF ApproveReceipt, TypeOK
  <1>17. CASE TagCard(p)
    BY <1>17, <1>p DEF TagCard, TypeOK
  <1>18. CASE ChargeBank(p)
    BY <1>18, <1>p DEF ChargeBank, TypeOK
  <1>19. CASE PersistDebit(p)
    BY <1>19, <1>p DEF PersistDebit, TypeOK, Persists
  <1>20. CASE PayerCallFails(p)
    BY SMTT(40), <1>20, <1>p DEF PayerCallFails, Fails, TypeOK
  <1> QED
    BY <1>1, <1>2, <1>3, <1>4, <1>5, <1>6, <1>7, <1>8, <1>9, <1>10, <1>11, <1>12, <1>13,
       <1>14, <1>15, <1>16, <1>17, <1>18, <1>19, <1>20 DEF PayerWorks

\* A payer's own step keeps that.
LEMMA PayerFlows ==
    ASSUME TypeOK, NEW p \in Payer, Flow(p), Read(p) \/ PayerWorks(p)
    PROVE  Flow(p)'
  <1> USE DEF docVars, priorityVars, stripeVars, Goes, Flow, CardPlace, DebitPlace, Early,
     Untouched, Moved, HookStep, HookMoved
  <1>p. p \in Actor /\ pis[p] \in Intent /\ call[p] \in Call
    BY DEF Actor, TypeOK
  <1>1. CASE Read(p)
    BY <1>1, <1>p DEF Read, TypeOK, Intent, Call
  <1>2. CASE Lock(p)
    BY <1>2, <1>p DEF Lock, TypeOK, Intent, Call
  <1>3. CASE Check(p)
    BY <1>3, <1>p DEF Check, TypeOK, Intent, Call
  <1>4. CASE Unlock(p)
    BY <1>4, <1>p DEF Unlock, TypeOK, Intent, Call
  <1>5. CASE CreateFeesInvoice(p)
    BY <1>5, <1>p DEF CreateFeesInvoice, TypeOK, Intent, Call
  <1>6. CASE CreateReceipt(p)
    BY <1>6, <1>p DEF CreateReceipt, TypeOK, Intent, Call
  <1>7. CASE Authorize(p)
    BY <1>7, <1>p DEF Authorize, TypeOK, Intent, Call
  <1>8. CASE PersistCard(p)
    BY <1>8, <1>p DEF PersistCard, TypeOK, Intent, Call, Persists
  <1>9. CASE Capture(p)
    BY <1>9, <1>p DEF Capture, TypeOK, Intent, Call
  <1>10. CASE CancelIntent(p)
    BY <1>10, <1>p DEF CancelIntent, TypeOK, Intent, Call
  <1>11. CASE RecordCancel(p)
    BY <1>11, <1>p DEF RecordCancel, TypeOK, Intent, Call
  <1>12. CASE Cleanup(p)
    BY <1>12, <1>p DEF Cleanup, TypeOK, Intent, Call
  <1>13. CASE ApproveFees(p)
    BY <1>13, <1>p DEF ApproveFees, TypeOK, Intent, Call
  <1>14. CASE BookCard(p)
    BY <1>14, <1>p DEF BookCard, TypeOK, Intent, Call
  <1>15. CASE PatchReceipt(p)
    BY <1>15, <1>p DEF PatchReceipt, TypeOK, Intent, Call
  <1>16. CASE ApproveReceipt(p)
    BY <1>16, <1>p DEF ApproveReceipt, TypeOK, Intent, Call
  <1>17. CASE TagCard(p)
    BY <1>17, <1>p DEF TagCard, TypeOK, Intent, Call
  <1>18. CASE ChargeBank(p)
    BY <1>18, <1>p DEF ChargeBank, TypeOK, Intent, Call
  <1>19. CASE PersistDebit(p)
    BY <1>19, <1>p DEF PersistDebit, TypeOK, Intent, Call, Persists
  <1>20. CASE PayerCallFails(p)
    BY <1>20, <1>p DEF PayerCallFails, Fails, TypeOK
  <1> QED
    BY <1>1, <1>2, <1>3, <1>4, <1>5, <1>6, <1>7, <1>8, <1>9, <1>10, <1>11, <1>12, <1>13,
       <1>14, <1>15, <1>16, <1>17, <1>18, <1>19, <1>20 DEF PayerWorks

\* Once Stripe has been asked for the money of a bank debit its payer changes little:
\* it may record the payment, and end.
LEMMA PayerLeavesDebit ==
    ASSUME TypeOK, NEW p \in Payer, Flow(p), Read(p) \/ PayerWorks(p),
           call[p].kind = "debit", stripe[p] # "none"
    PROVE  /\ call'[p] = call[p] /\ stripe'[p] = stripe[p] /\ tagged' = tagged
           /\ pis[p].status # "none" => pis'[p] = pis[p]
  <1> USE DEF docVars, priorityVars, stripeVars, Goes
  <1>1. at[p] \notin Early \cup CardPlace
    BY DEF Flow, Untouched
  <1>2. PersistDebit(p) \/ Unlock(p) \/ PayerCallFails(p)
    BY <1>1 DEF PayerWorks, Read, Lock, Check, CreateFeesInvoice, CreateReceipt, Authorize,
           PersistCard, Capture, CancelIntent, RecordCancel, Cleanup, ApproveFees, BookCard,
           PatchReceipt, ApproveReceipt, TagCard, ChargeBank, Early, CardPlace
  <1>3. CASE PersistDebit(p)
    BY <1>3 DEF PersistDebit, Persists, Flow, TypeOK
  <1>4. CASE Unlock(p) \/ PayerCallFails(p)
    BY <1>4 DEF Unlock, PayerCallFails, Fails
  <1> QED  BY <1>2, <1>3, <1>4

\* The kind of a payment is settled by the time Stripe hears of it.
LEMMA PayerCallStays ==
    ASSUME TypeOK, NEW p \in Payer, Flow(p), Read(p) \/ PayerWorks(p),
           p \in tagged' \/ stripe[p] # "none"
    PROVE  call'[p] = call[p]
  <1> USE DEF docVars, priorityVars, stripeVars, Goes
  <1>1. CASE Read(p) \/ Check(p)
    BY <1>1 DEF Read, Check, Flow, Untouched, Early
  <1>2. CASE ~(Read(p) \/ Check(p))
    BY <1>2 DEF PayerWorks, Lock, Unlock, CreateFeesInvoice, CreateReceipt, Authorize,
           PersistCard, Capture, CancelIntent, RecordCancel, Cleanup, ApproveFees, BookCard,
           PatchReceipt, ApproveReceipt, TagCard, ChargeBank, PersistDebit, PayerCallFails, Fails
  <1> QED  BY <1>1, <1>2

-----------------------------------------------------------------------------
(* What the handler of an event does.                                      *)

HookPlace == {"idle", "event", "hook_lock", "returned", "lost", "kept", "stuck", "dead"}
               \cup HookStep \cup HookMoved

\* Where a delivery is says that Stripe has settled the bank debit and that the document
\* knows it; a receipt that a delivery has approved is named by the payment intent,
\* unless the lock is held for it or was left for it.
HookFlow(h) ==
    /\ at[h] \in HookPlace
    /\ at[h] # "idle" => call[h[1]].kind = "debit" /\ stripe[h[1]] \in {"succeeded", "failed"}
    /\ at[h] \in {"hook_lock", "kept", "stuck", "dead"} \cup HookStep \cup HookMoved =>
          stripe[h[1]] = "succeeded" /\ Recorded(h[1])
    /\ at[h] \in {"draft", "patch_draft", "hook_approve"} => h[1] \notin tagged
    /\ receipt[h] # "none" => at[h] # "idle"
    /\ receipt[h] = "approved" => h[1] \in tagged \/ at[h] \in {"hook_tag", "kept", "dead"}
    /\ at[h] = "hook_tag" => receipt[h] = "approved"
    /\ at[h] = "hook_book" => h[1] \in tagged

\* The rest of the world.
HookFrame(h) ==
    /\ \A a \in Actor \ {h} : at'[a] = at[a] /\ receipt'[a] = receipt[a]
    /\ call' = call /\ stripe' = stripe /\ fees' = fees
    /\ \A q \in Payer \ {h[1]} : pis'[q] = pis[q]
    /\ tagged' = tagged \/ (at[h] = "hook_tag" /\ tagged' = tagged \cup {h[1]})

\* A step of a handler touches the payment of its event only.
LEMMA HookKeepsOthers ==
    ASSUME TypeOK, NEW h \in Hook, Deliver(h) \/ HookWorks(h)
    PROVE  HookFrame(h)
  <1> USE DEF docVars, priorityVars, stripeVars, Goes, HookFrame
  <1>h. h \in Actor /\ h[1] \in Payer
    BY HookParts
  <1>1. CASE Deliver(h)
    BY <1>1, <1>h DEF Deliver, TypeOK
  <1>2. CASE HookReads(h)
    BY <1>2, <1>h DEF HookReads, TypeOK
  <1>3. CASE HookLocks(h)
    BY <1>3, <1>h DEF HookLocks, TypeOK
  <1>4. CASE HookGets(h)
    BY <1>4, <1>h DEF HookGets, TypeOK
  <1>5. CASE HookDrafts(h)
    BY <1>5, <1>h DEF HookDrafts, TypeOK
  <1>6. CASE HookPatches(h)
    BY <1>6, <1>h DEF HookPatches, TypeOK
  <1>7. CASE HookApproves(h)
    BY <1>7, <1>h DEF HookApproves, TypeOK
  <1>8. CASE HookTags(h)
    BY <1>8, <1>h DEF HookTags, TypeOK
  <1>9. CASE HookBooks(h)
    BY <1>9, <1>h DEF HookBooks, TypeOK
  <1>10. CASE HookUnlocks(h)
    BY <1>10, <1>h DEF HookUnlocks, TypeOK
  <1>11. CASE HookCallFails(h)
    BY <1>11, <1>h DEF HookCallFails, Fails, TypeOK
  <1> QED
    BY <1>1, <1>2, <1>3, <1>4, <1>5, <1>6, <1>7, <1>8, <1>9, <1>10, <1>11 DEF HookWorks

\* A handler's own step keeps what its place says, and changes a payment only that has
\* succeeded or failed.
LEMMA HookFlows ==
    ASSUME TypeOK, NEW h \in Hook, HookFlow(h), Deliver(h) \/ HookWorks(h)
    PROVE  /\ HookFlow(h)'
           /\ stripe[h[1]] \in {"succeeded", "failed"}
           /\ pis'[h[1]] = pis[h[1]] \/ Recorded(h[1])'
           /\ stripe[h[1]] = "succeeded" /\ pis[h[1]].status = "succeeded" =>
                 pis'[h[1]].status = "succeeded"
           /\ call[h[1]].kind = "debit"
  <1> USE DEF docVars, priorityVars, stripeVars, Goes, HookFlow, HookPlace, HookStep,
     HookMoved, Recorded
  <1>h. h \in Actor /\ h[1] \in Payer /\ pis[h[1]] \in Intent
    BY HookParts DEF TypeOK
  <1>1. CASE Deliver(h)
    BY <1>1, <1>h DEF Deliver, TypeOK, Intent
  <1>2. CASE HookReads(h)
    BY <1>2, <1>h DEF HookReads, TypeOK, Intent
  <1>3. CASE HookLocks(h)
    BY <1>3, <1>h DEF HookLocks, TypeOK, Intent
  <1>4. CASE HookGets(h)
    BY <1>4, <1>h DEF HookGets, TypeOK, Intent
  <1>5. CASE HookDrafts(h)
    BY <1>5, <1>h DEF HookDrafts, TypeOK, Intent
  <1>6. CASE HookPatches(h)
    BY <1>6, <1>h DEF HookPatches, TypeOK, Intent
  <1>7. CASE HookApproves(h)
    BY <1>7, <1>h DEF HookApproves, TypeOK, Intent
  <1>8. CASE HookTags(h)
    BY <1>8, <1>h DEF HookTags, TypeOK, Intent
  <1>9. CASE HookBooks(h)
    BY <1>9, <1>h DEF HookBooks, TypeOK, Intent
  <1>10. CASE HookUnlocks(h)
    BY <1>10, <1>h DEF HookUnlocks, TypeOK, Intent
  <1>11. CASE HookCallFails(h)
    BY <1>11, <1>h DEF HookCallFails, Fails, TypeOK, Intent
  <1> QED
    BY <1>1, <1>2, <1>3, <1>4, <1>5, <1>6, <1>7, <1>8, <1>9, <1>10, <1>11 DEF HookWorks

\* What a step of a handler does to its receipt, the payment and its end.
DeliverMoves(h) ==
    /\ receipt'[h] # receipt[h] => at[h] \in {"draft", "hook_approve"}
    /\ receipt'[h] = "approved" /\ receipt[h] # "approved" => at[h] = "hook_approve"
    /\ pis' # pis => at[h] = "hook_book" \/ Recorded(h[1])
    /\ at[h] = "hook_tag" /\ tagged' # tagged =>
          at'[h] = "hook_book" /\ receipt'[h] = receipt[h] /\ pis' = pis
    /\ at[h] \in {"hook_book", "kept", "dead"} =>
          pis'[h[1]].status = "succeeded" \/ at'[h] \in {"hook_book", "kept", "dead"}
    /\ at'[h] = "returned" /\ stripe[h[1]] = "succeeded" =>
          at[h] = "hook_unlock" /\ h[1] \in tagged /\ pis' = pis

LEMMA HookMoves ==
    ASSUME TypeOK, NEW h \in Hook, Deliver(h) \/ HookWorks(h)
    PROVE  DeliverMoves(h)
  <1> USE DEF docVars, priorityVars, stripeVars, Goes, HookStep, HookMoved, Recorded,
     DeliverMoves
  <1>h. h \in Actor /\ h[1] \in Payer /\ pis[h[1]] \in Intent
    BY HookParts DEF TypeOK
  <1>1. CASE Deliver(h)
    BY <1>1, <1>h DEF Deliver, TypeOK, Intent
  <1>2. CASE HookReads(h)
    BY <1>2, <1>h DEF HookReads, TypeOK, Intent
  <1>3. CASE HookLocks(h)
    BY <1>3, <1>h DEF HookLocks, TypeOK, Intent
  <1>4. CASE HookGets(h)
    BY <1>4, <1>h DEF HookGets, TypeOK, Intent
  <1>5. CASE HookDrafts(h)
    BY <1>5, <1>h DEF HookDrafts, TypeOK, Intent
  <1>6. CASE HookPatches(h)
    BY <1>6, <1>h DEF HookPatches, TypeOK, Intent
  <1>7. CASE HookApproves(h)
    BY <1>7, <1>h DEF HookApproves, TypeOK, Intent
  <1>8. CASE HookTags(h)
    BY <1>8, <1>h DEF HookTags, TypeOK, Intent
  <1>9. CASE HookBooks(h)
    BY <1>9, <1>h DEF HookBooks, TypeOK, Intent
  <1>10. CASE HookUnlocks(h)
    BY <1>10, <1>h DEF HookUnlocks, TypeOK, Intent
  <1>11. CASE HookCallFails(h)
    BY <1>11, <1>h DEF HookCallFails, Fails, TypeOK, Intent
  <1> QED
    BY <1>1, <1>2, <1>3, <1>4, <1>5, <1>6, <1>7, <1>8, <1>9, <1>10, <1>11 DEF HookWorks

-----------------------------------------------------------------------------
(* A bank debit is booked once.                                            *)

\* Of the deliveries for one payment at most one has approved its receipt.
OneApproved ==
    \A h, i \in Hook :
        h[1] = i[1] /\ receipt[h] = "approved" /\ receipt[i] = "approved" => h = i

\* A debit whose payment intent names a receipt has one, and is booked or left locked.
TaggedIsBooked ==
    \A p \in tagged : call[p].kind = "debit" =>
        /\ stripe[p] = "succeeded" /\ Recorded(p)
        /\ \E h \in Hook : h[1] = p /\ receipt[h] = "approved"
        /\ \/ pis[p].status = "succeeded"
           \/ \E h \in Hook : h[1] = p /\ at[h] \in {"hook_book", "kept", "dead"}

\* A delivery ends without an error only when the intent names a receipt and is booked.
ReturnedIsTagged ==
    \A h \in Hook : at[h] = "returned" /\ stripe[h[1]] = "succeeded" =>
        h[1] \in tagged /\ pis[h[1]].status = "succeeded"

IntentInv ==
    /\ \A p \in Payer : Flow(p)
    /\ \A h \in Hook : HookFlow(h)
    /\ OneApproved /\ TaggedIsBooked /\ ReturnedIsTagged

\* A payer keeps it: of a debit that is being booked it changes nothing.
LEMMA PayerKeepsIntents ==
    ASSUME TypeOK, IntentInv, NEW p \in Payer, Read(p) \/ PayerWorks(p)
    PROVE  IntentInv'
  <1>f. PayerFrame(p) /\ Flow(p)' /\ Flow(p)
    BY PayerKeepsOthers, PayerFlows DEF IntentInv
  <1>d. call[p].kind = "debit" /\ stripe[p] # "none" =>
            /\ call'[p] = call[p] /\ stripe'[p] = stripe[p] /\ tagged' = tagged
            /\ pis[p].status # "none" => pis'[p] = pis[p]
    BY PayerLeavesDebit DEF IntentInv
  <1>h. \A h \in Hook : h # p /\ h \in Actor /\ h[1] \in Payer
    BY HookParts, ActorsAssumption
  <1>t. tagged' = tagged \/ (call[p].kind = "card" /\ stripe[p] = "succeeded"
                                /\ tagged' = tagged \cup {p})
    BY <1>f DEF PayerFrame, Flow, CardPlace, Moved
  <1>1. \A q \in Payer : Flow(q)'
    BY <1>f, <1>t, PayerIsActor DEF PayerFrame, IntentInv, Flow, Untouched
  <1>2. ASSUME NEW h \in Hook PROVE HookFlow(h)'
    <2>1. HookFlow(h) /\ at'[h] = at[h] /\ receipt'[h] = receipt[h]
      BY <1>f, <1>h DEF IntentInv, PayerFrame
    <2>2. CASE h[1] = p
      BY <1>d, <1>t, <2>1, <2>2 DEF HookFlow, Recorded, HookStep, HookMoved
    <2>3. CASE h[1] # p
      BY <1>f, <1>h, <1>t, <2>1, <2>3 DEF HookFlow, PayerFrame, Recorded, HookStep, HookMoved
    <2> QED  BY <2>2, <2>3
  <1>3. OneApproved'
    BY <1>f, <1>h DEF IntentInv, OneApproved, PayerFrame
  <1>4. TaggedIsBooked'
    <2> SUFFICES ASSUME NEW q \in tagged', call'[q].kind = "debit"
                 PROVE  /\ stripe'[q] = "succeeded" /\ Recorded(q)'
                        /\ \E h \in Hook : h[1] = q /\ receipt'[h] = "approved"
                        /\ \/ pis'[q].status = "succeeded"
                           \/ \E h \in Hook : h[1] = q /\ at'[h] \in {"hook_book", "kept", "dead"}
      BY DEF TaggedIsBooked
    <2>1. q \in Payer
      BY <1>t DEF TypeOK
    <2>2. q \in tagged /\ call[q].kind = "debit" /\ call'[q] = call[q]
      BY <1>d, <1>f, <1>t, <2>1, PayerCallStays DEF PayerFrame, IntentInv
    <2>3. /\ stripe[q] = "succeeded" /\ Recorded(q)
          /\ \E h \in Hook : h[1] = q /\ receipt[h] = "approved"
          /\ \/ pis[q].status = "succeeded"
             \/ \E h \in Hook : h[1] = q /\ at[h] \in {"hook_book", "kept", "dead"}
      BY <2>2 DEF IntentInv, TaggedIsBooked
    <2>4. stripe'[q] = stripe[q] /\ pis'[q] = pis[q]
      BY <1>d, <1>f, <2>1, <2>2, <2>3 DEF PayerFrame, Recorded
    <2> QED  BY <1>f, <1>h, <2>3, <2>4 DEF PayerFrame, Recorded
  <1>5. ReturnedIsTagged'
    <2> SUFFICES ASSUME NEW h \in Hook, at'[h] = "returned", stripe'[h[1]] = "succeeded"
                 PROVE  h[1] \in tagged' /\ pis'[h[1]].status = "succeeded"
      BY DEF ReturnedIsTagged
    <2>1. at[h] = "returned" /\ HookFlow(h)
      BY <1>f, <1>h DEF PayerFrame, IntentInv
    <2>2. stripe[h[1]] = "succeeded"
      BY <1>d, <1>f, <1>h, <2>1 DEF HookFlow, PayerFrame
    <2>3. h[1] \in tagged /\ pis[h[1]].status = "succeeded"
      BY <2>1, <2>2 DEF IntentInv, ReturnedIsTagged
    <2>4. pis'[h[1]] = pis[h[1]]
      BY <1>d, <1>f, <1>h, <2>1, <2>2, <2>3 DEF HookFlow, PayerFrame
    <2> QED  BY <1>t, <2>3, <2>4
  <1> QED  BY <1>1, <1>2, <1>3, <1>4, <1>5 DEF IntentInv

\* So does a handler: while one is between the check for a receipt and its approval, it
\* holds the lock and no other receipt of the payment is approved.
LEMMA HookKeepsIntents ==
    ASSUME TypeOK, LockOwned, IntentInv, NEW h \in Hook, Deliver(h) \/ HookWorks(h)
    PROVE  IntentInv'
  <1> DEFINE p == h[1]
  <1>f. HookFrame(h) /\ HookFlow(h) /\ HookFlow(h)'
    BY HookKeepsOthers, HookFlows DEF IntentInv
  <1>s. /\ stripe[p] \in {"succeeded", "failed"} /\ call[p].kind = "debit"
        /\ pis'[p] = pis[p] \/ Recorded(p)'
        /\ stripe[p] = "succeeded" /\ pis[p].status = "succeeded" => pis'[p].status = "succeeded"
    BY HookFlows DEF IntentInv
  <1>h. \A i \in Hook : i \in Actor /\ i[1] \in Payer /\ i \notin Payer
    BY HookParts, ActorsAssumption
  <1>m. DeliverMoves(h)
    BY HookMoves DEF IntentInv
  <1>b. \A i \in Hook : i # h /\ at[h] \in HookStep \cup HookMoved =>
            at[i] \notin {"draft", "patch_draft", "hook_approve", "hook_tag", "hook_book", "kept", "dead"}
    BY <1>h, Holdings DEF LockOwned, Blocks, HookStep, HookMoved
  <1>1. \A q \in Payer : Flow(q)'
    <2> SUFFICES ASSUME NEW q \in Payer PROVE Flow(q)'
      OBVIOUS
    <2>1. Flow(q) /\ at'[q] = at[q] /\ receipt'[q] = receipt[q] /\ q \in Actor
      BY <1>f, <1>h, PayerIsActor DEF HookFrame, IntentInv
    <2>2. CASE q # p
      BY <1>f, <2>1, <2>2 DEF HookFrame, Flow, Untouched
    <2>3. CASE q = p
      BY <1>f, <1>m, <1>s, <2>1, <2>3 DEF HookFrame, Flow, Untouched, HookFlow, HookMoved,
         Recorded, DeliverMoves
    <2> QED  BY <2>2, <2>3
  <1>2. ASSUME NEW i \in Hook PROVE HookFlow(i)'
    <2>1. CASE i = h
      BY <1>f, <2>1
    <2>2. CASE i # h
      <3>1. HookFlow(i) /\ at'[i] = at[i] /\ receipt'[i] = receipt[i]
        BY <1>f, <1>h, <2>2 DEF IntentInv, HookFrame
      <3>2. Recorded(i[1]) => Recorded(i[1])'
        BY <1>f, <1>h, <1>s DEF HookFrame, Recorded
      <3>3. at[i] \in {"draft", "patch_draft", "hook_approve"} => tagged' = tagged
        BY <1>b, <1>f, <2>2 DEF HookFrame, HookMoved
      <3> QED  BY <1>f, <3>1, <3>2, <3>3 DEF HookFlow, HookFrame
    <2> QED  BY <2>1, <2>2
  <1>3. OneApproved'
    <2>1. ASSUME NEW i \in Hook, i # h, i[1] = p, receipt[i] = "approved", receipt[h] # "approved",
                 receipt'[h] = "approved"
          PROVE  FALSE
      <3>1. at[h] = "hook_approve"
        BY <1>m, <2>1 DEF DeliverMoves
      <3>2. p \notin tagged
        BY <1>f, <3>1 DEF HookFlow
      <3>3. at[i] \in {"hook_tag", "kept", "dead"}
        BY <2>1, <3>2 DEF IntentInv, HookFlow
      <3> QED  BY <1>b, <2>1, <3>1, <3>3 DEF HookMoved
    <2>2. \A i \in Hook : i # h => receipt'[i] = receipt[i]
      BY <1>f, <1>h DEF HookFrame
    <2> QED  BY <2>1, <2>2 DEF IntentInv, OneApproved
  <1>4. TaggedIsBooked'
    <2> SUFFICES ASSUME NEW q \in tagged', call'[q].kind = "debit"
                 PROVE  /\ stripe'[q] = "succeeded" /\ Recorded(q)'
                        /\ \E i \in Hook : i[1] = q /\ receipt'[i] = "approved"
                        /\ \/ pis'[q].status = "succeeded"
                           \/ \E i \in Hook : i[1] = q /\ at'[i] \in {"hook_book", "kept", "dead"}
      BY DEF TaggedIsBooked
    <2>1. CASE q \in tagged
      <3>1. /\ stripe[q] = "succeeded" /\ Recorded(q)
            /\ \E i \in Hook : i[1] = q /\ receipt[i] = "approved"
            /\ \/ pis[q].status = "succeeded"
               \/ \E i \in Hook : i[1] = q /\ at[i] \in {"hook_book", "kept", "dead"}
        BY <1>f, <2>1 DEF IntentInv, TaggedIsBooked, HookFrame
      <3>2. \A i \in Hook : receipt[i] = "approved" => receipt'[i] = "approved"
        BY <1>f, <1>h, <1>m, <2>1 DEF HookFrame, DeliverMoves, HookFlow
      <3>3. \A i \in Hook : i[1] = q /\ at[i] \in {"hook_book", "kept", "dead"} =>
                pis'[q].status = "succeeded" \/ at'[i] \in {"hook_book", "kept", "dead"}
        BY <1>f, <1>h, <1>m DEF HookFrame, DeliverMoves
      <3>4. q \in Payer
        BY <2>1 DEF TypeOK
      <3>5. pis[q].status = "succeeded" => pis'[q].status = "succeeded"
        BY <1>f, <1>s, <3>1, <3>4 DEF HookFrame
      <3>6. Recorded(q)'
        BY <1>f, <1>s, <3>1, <3>4 DEF HookFrame, Recorded
      <3> QED  BY <1>f, <3>1, <3>2, <3>3, <3>5, <3>6 DEF HookFrame
    <2>2. CASE q \notin tagged
      <3>1. q = p /\ at[h] = "hook_tag"
        BY <1>f, <2>2 DEF HookFrame
      <3>2. stripe[p] = "succeeded" /\ Recorded(p) /\ receipt[h] = "approved"
        BY <1>f, <3>1 DEF HookFlow, HookMoved
      <3>3. at'[h] = "hook_book" /\ receipt'[h] = receipt[h] /\ pis' = pis
        BY <1>m, <2>2, <3>1 DEF DeliverMoves
      <3> QED  BY <1>f, <3>1, <3>2, <3>3 DEF HookFrame, Recorded
    <2> QED  BY <2>1, <2>2
  <1>5. ReturnedIsTagged'
    <2> SUFFICES ASSUME NEW i \in Hook, at'[i] = "returned", stripe'[i[1]] = "succeeded"
                 PROVE  i[1] \in tagged' /\ pis'[i[1]].status = "succeeded"
      BY DEF ReturnedIsTagged
    <2>1. stripe[i[1]] = "succeeded" /\ tagged \subseteq tagged'
      BY <1>f DEF HookFrame
    <2>2. CASE i # h
      <3>1. i[1] \in tagged /\ pis[i[1]].status = "succeeded"
        BY <1>f, <1>h, <2>1, <2>2 DEF IntentInv, ReturnedIsTagged, HookFrame
      <3> QED  BY <1>f, <1>h, <1>s, <2>1, <3>1 DEF HookFrame
    <2>3. CASE i = h
      <3>1. at[h] = "hook_unlock" /\ p \in tagged /\ pis' = pis
        BY <1>m, <2>1, <2>3 DEF DeliverMoves
      <3>2. pis[p].status = "succeeded"
        BY <1>b, <1>s, <3>1 DEF IntentInv, TaggedIsBooked, HookStep
      <3> QED  BY <2>1, <2>3, <3>1, <3>2
    <2> QED  BY <2>2, <2>3
  <1> QED  BY <1>1, <1>2, <1>3, <1>4, <1>5 DEF IntentInv

\* Stripe, a crash and the synchronisation keep it too.
LEMMA OthersKeepIntents ==
    ASSUME TypeOK, IntentInv,
           \/ \E p \in Payer : SettleDebit(p)
           \/ \E a \in Actor : Crash(a)
           \/ Synchronise
           \/ UNCHANGED vars
    PROVE  IntentInv'
  <1> USE DEF docVars, priorityVars, stripeVars, vars
  <1>h. \A h \in Hook : h \in Actor /\ h[1] \in Payer /\ h \notin Payer
    BY HookParts, ActorsAssumption
  <1>1. ASSUME NEW p \in Payer, SettleDebit(p) PROVE IntentInv'
    <2>1. \A q \in Payer : stripe'[q] = IF q = p THEN stripe'[p] ELSE stripe[q]
      BY <1>1 DEF SettleDebit, TypeOK
    <2>2. stripe[p] = "processing" /\ stripe'[p] \in {"succeeded", "failed"}
      BY <1>1 DEF SettleDebit, TypeOK
    <2>3. \A q \in Payer : Flow(q)'
      BY <1>1, <2>1, <2>2 DEF SettleDebit, IntentInv, Flow, Untouched, Moved
    <2>4. \A h \in Hook : at[h] # "idle" => h[1] # p
      BY <2>2 DEF IntentInv, HookFlow
    <2>5. \A h \in Hook : HookFlow(h)'
      BY <1>1, <1>h, <2>1, <2>4 DEF SettleDebit, IntentInv, HookFlow, Recorded, HookStep,
         HookMoved
    <2>6. p \in tagged => call[p].kind # "debit"
      BY <2>2 DEF IntentInv, TaggedIsBooked
    <2>7. OneApproved' /\ TaggedIsBooked' /\ ReturnedIsTagged'
      BY <1>1, <1>h, <2>1, <2>4, <2>6
      DEF SettleDebit, IntentInv, OneApproved, TaggedIsBooked, ReturnedIsTagged, Recorded,
         TypeOK
    <2> QED  BY <2>3, <2>5, <2>7 DEF IntentInv
  <1>2. ASSUME NEW a \in Actor, Crash(a) PROVE IntentInv'
    <2>1. /\ \A b \in Actor \ {a} : at'[b] = at[b]
          /\ at'[a] = IF Holds(a) THEN "dead" ELSE "lost"
          /\ at[a] \notin Ended \cup {"idle"}
      BY <1>2 DEF Crash, TypeOK
    <2>2. \A q \in Payer : Flow(q)'
      BY <1>2, <2>1, PayerIsActor
      DEF Crash, IntentInv, Flow, Untouched, Recorded, CardPlace, DebitPlace, Early, Moved,
          HookStep, HookMoved, Holds, Holding, Undoing, Ended, TypeOK, Place
    <2>3. \A h \in Hook : HookFlow(h)'
      BY <1>2, <1>h, <2>1
      DEF Crash, IntentInv, HookFlow, HookPlace, Recorded, HookStep, HookMoved, Holds, Holding,
          Undoing, Moved, Ended
    <2>4. OneApproved'
      BY <1>2 DEF Crash, IntentInv, OneApproved
    <2>5. \A h \in Hook : at[h] \in {"hook_book", "kept", "dead"} => at'[h] \in {"hook_book", "kept", "dead"}
      BY <1>h, <2>1, Holdings DEF Ended, Holds, Holding, HookMoved
    <2>6. TaggedIsBooked'
      BY <1>2, <2>5 DEF Crash, IntentInv, TaggedIsBooked, Recorded
    <2>7. ReturnedIsTagged'
      BY <1>2, <1>h, <2>1 DEF Crash, IntentInv, ReturnedIsTagged
    <2> QED  BY <2>2, <2>3, <2>4, <2>6, <2>7 DEF IntentInv
  <1>3. CASE Synchronise \/ UNCHANGED vars
    BY <1>3 DEF Synchronise, IntentInv, Flow, Untouched, HookFlow, OneApproved, TaggedIsBooked,
                ReturnedIsTagged, Recorded
  <1> QED  BY <1>1, <1>2, <1>3

LEMMA IntentsAreKept == Spec => []IntentInv
  <1>1. Init => IntentInv
    <2> SUFFICES ASSUME Init PROVE IntentInv
      OBVIOUS
    <2>1. \A p \in Payer : p \in Actor /\ NoIntents[p].status = "none" /\ NoCall.kind = "card"
      BY DEF Actor, NoIntents, NoIntent, NoCall
    <2>2. \A p \in Payer : Flow(p)
      BY <2>1 DEF Init, Flow, Untouched, CardPlace, DebitPlace, Moved, HookStep, HookMoved
    <2>3. \A h \in Hook : h \in Actor /\ HookFlow(h)
      BY HookParts DEF Init, HookFlow, HookPlace, HookStep, HookMoved
    <2> QED  BY <2>2, <2>3 DEF Init, IntentInv, OneApproved, TaggedIsBooked, ReturnedIsTagged
  <1>2. TypeOK /\ LockOwned /\ IntentInv /\ [Next]_vars => IntentInv'
    BY SMTT(40), PayerKeepsIntents, HookKeepsIntents, OthersKeepIntents DEF Next
  <1> QED  BY <1>1, <1>2, TypeCorrect, LockIsOwned, PTL DEF Spec

-----------------------------------------------------------------------------
(* The money of a payer, when Stripe always answers.                       *)

FeesAre(p, d) == fees[p] = IF call[p].fee > 0 THEN d ELSE "none"

ShownPaid(p) ==
    pis[p].status = "succeeded" /\ pis[p].received = call[p].amount + call[p].fee

NotTaken(p) ==
    /\ stripe[p] \notin {"processing", "succeeded"}
    /\ receipt[p] # "approved" /\ fees[p] # "approved"

Booked(p) ==
    stripe[p] = "succeeded" /\ ShownPaid(p) /\ receipt[p] = "approved" /\ FeesAre(p, "approved")

\* A card is charged at one step, after which its documents are approved one by one.
CardStage(p) ==
    /\ at[p] \in Early \cup {"persist", "capture", "cancel", "record_cancel", "cleanup", "lost"} =>
          NotTaken(p)
    /\ at[p] \in {"receipt", "authorize", "persist", "capture"} => FeesAre(p, "draft")
    /\ at[p] \in {"authorize", "persist", "capture"} => receipt[p] = "draft"
    /\ at[p] \in Moved =>
          /\ stripe[p] = "succeeded"
          /\ receipt[p] = IF at[p] = "tag" THEN "approved" ELSE "draft"
          /\ FeesAre(p, IF at[p] = "approve_fees" THEN "draft" ELSE "approved")
          /\ at[p] \in {"patch", "approve", "tag"} => ShownPaid(p)
    /\ at[p] \in {"unlock", "returned"} => NotTaken(p) \/ Booked(p)
    /\ at[p] \in {"kept", "stuck", "dead"} =>
          NotTaken(p) \/ (stripe[p] = "succeeded" /\ "deleted" \notin {receipt[p], fees[p]})

\* A payer that is done with a bank debit has recorded it.
DebitStage(p) == at[p] \in {"unlock", "returned"} /\ stripe[p] # "none" => Recorded(p)

MoneyStage(p) ==
    /\ call[p].kind = "card" => CardStage(p)
    /\ call[p].kind = "debit" => DebitStage(p)

\* A payer's own step keeps that, unless Stripe charges without an answer.
LEMMA PayerStages ==
    ASSUME "lost_answer" \notin Mishap, TypeOK, NEW p \in Payer, Flow(p), MoneyStage(p),
           Read(p) \/ PayerWorks(p)
    PROVE  MoneyStage(p)'
  <1> USE DEF docVars, priorityVars, stripeVars, Goes, Flow, CardPlace, DebitPlace, Early,
              Untouched, Moved, HookStep, HookMoved, FeesAre, ShownPaid, NotTaken, Booked,
              CardStage, DebitStage, MoneyStage, Recorded
  <1>p. p \in Actor /\ pis[p] \in Intent /\ call[p] \in Call
    BY DEF Actor, TypeOK
  <1>1. CASE Read(p)
    BY <1>1, <1>p DEF Read, TypeOK, Intent, Call
  <1>2. CASE Lock(p)
    BY <1>2, <1>p DEF Lock, TypeOK, Intent, Call
  <1>3. CASE Check(p)
    BY <1>3, <1>p DEF Check, TypeOK, Intent, Call
  <1>4. CASE Unlock(p)
    BY <1>4, <1>p DEF Unlock, TypeOK, Intent, Call
  <1>5. CASE CreateFeesInvoice(p)
    BY <1>5, <1>p DEF CreateFeesInvoice, TypeOK, Intent, Call
  <1>6. CASE CreateReceipt(p)
    BY <1>6, <1>p DEF CreateReceipt, TypeOK, Intent, Call
  <1>7. CASE Authorize(p)
    BY <1>7, <1>p DEF Authorize, TypeOK, Intent, Call
  <1>8. CASE PersistCard(p)
    BY <1>8, <1>p DEF PersistCard, TypeOK, Intent, Call, Persists
  <1>9. CASE Capture(p)
    BY <1>9, <1>p DEF Capture, TypeOK, Intent, Call
  <1>10. CASE CancelIntent(p)
    BY <1>10, <1>p DEF CancelIntent, TypeOK, Intent, Call
  <1>11. CASE RecordCancel(p)
    BY <1>11, <1>p DEF RecordCancel, TypeOK, Intent, Call
  <1>12. CASE Cleanup(p)
    BY <1>12, <1>p DEF Cleanup, TypeOK, Intent, Call, AfterDelete
  <1>13. CASE ApproveFees(p)
    BY <1>13, <1>p DEF ApproveFees, TypeOK, Intent, Call
  <1>14. CASE BookCard(p)
    BY <1>14, <1>p DEF BookCard, TypeOK, Intent, Call
  <1>15. CASE PatchReceipt(p)
    BY <1>15, <1>p DEF PatchReceipt, TypeOK, Intent, Call
  <1>16. CASE ApproveReceipt(p)
    BY <1>16, <1>p DEF ApproveReceipt, TypeOK, Intent, Call
  <1>17. CASE TagCard(p)
    BY <1>17, <1>p DEF TagCard, TypeOK, Intent, Call
  <1>18. CASE ChargeBank(p)
    BY <1>18, <1>p DEF ChargeBank, TypeOK, Intent, Call
  <1>19. CASE PersistDebit(p)
    BY <1>19, <1>p DEF PersistDebit, TypeOK, Intent, Call, Persists
  <1>20. CASE PayerCallFails(p)
    BY <1>20, <1>p DEF PayerCallFails, Fails, TypeOK
  <1> QED
    BY ZenonT(60), <1>1, <1>2, <1>3, <1>4, <1>5, <1>6, <1>7, <1>8, <1>9, <1>10, <1>11, <1>12, <1>13,
       <1>14, <1>15, <1>16, <1>17, <1>18, <1>19, <1>20 DEF PayerWorks

\* Nobody else disturbs it: the handlers see bank debits only, and record what they see.
LEMMA StagesAreKept ==
    ASSUME "lost_answer" \notin Mishap, TypeOK, IntentInv, NEW q \in Payer, MoneyStage(q),
           [Next]_vars
    PROVE  MoneyStage(q)'
  <1> USE DEF docVars, priorityVars, stripeVars, vars
  <1>q. q \in Actor /\ Flow(q)
    BY PayerIsActor DEF IntentInv
  <1>s. ASSUME UNCHANGED <<at[q], call[q], stripe[q], pis[q], receipt[q], fees[q]>>
        PROVE  MoneyStage(q)'
    BY <1>s DEF MoneyStage, CardStage, DebitStage, FeesAre, ShownPaid, NotTaken, Booked,
       Recorded
  <1>1. ASSUME NEW p \in Payer, Read(p) \/ PayerWorks(p) PROVE MoneyStage(q)'
    <2>1. CASE p = q
      BY <1>1, <1>q, <2>1, PayerStages
    <2>2. CASE p # q
      BY <1>1, <1>q, <1>s, <2>2, PayerKeepsOthers DEF PayerFrame
    <2> QED  BY <2>1, <2>2
  <1>2. ASSUME NEW h \in Hook, Deliver(h) \/ HookWorks(h) PROVE MoneyStage(q)'
    <2>1. HookFrame(h) /\ h # q /\ h[1] \in Payer
      BY <1>2, HookKeepsOthers, HookParts, ActorsAssumption
    <2>2. CASE h[1] # q
      BY <1>q, <1>s, <2>1, <2>2 DEF HookFrame
    <2>3. CASE h[1] = q
      <3>1. call[q].kind = "debit" /\ (pis'[q] = pis[q] \/ Recorded(q)')
        BY <1>2, <2>3, HookFlows DEF IntentInv
      <3> QED  BY <1>q, <2>1, <3>1 DEF HookFrame, MoneyStage, DebitStage, Recorded
    <2> QED  BY <2>2, <2>3
  <1>3. ASSUME NEW p \in Payer, SettleDebit(p) PROVE MoneyStage(q)'
    <2>1. CASE p # q
      BY <1>3, <1>s, <2>1 DEF SettleDebit, TypeOK
    <2>2. CASE p = q /\ call[q].kind = "card"
      BY <1>3, <1>q, <2>2
      DEF SettleDebit, MoneyStage, CardStage, NotTaken, Flow, Early, Moved, Booked,
         Recorded, TypeOK,
          Place, Holding, Undoing, HookStep, HookMoved, DebitPlace, Ended
    <2>3. CASE p = q /\ call[q].kind = "debit"
      BY <1>3, <2>3 DEF SettleDebit, MoneyStage, DebitStage, Recorded
    <2> QED  BY <2>1, <2>2, <2>3, CallFields
  <1>4. ASSUME NEW a \in Actor, Crash(a) PROVE MoneyStage(q)'
    <2>1. CASE a # q
      BY <1>4, <1>q, <1>s, <2>1 DEF Crash, TypeOK
    <2>2. CASE a = q
      BY <1>4, <1>q, <2>2
      DEF Crash, MoneyStage, CardStage, DebitStage, FeesAre, NotTaken, Booked, Flow, Early,
         Moved,
          Holds, Holding, Undoing, HookStep, HookMoved, Ended, TypeOK, Place, CardPlace, DebitPlace
    <2> QED  BY <2>1, <2>2
  <1>5. CASE Synchronise \/ UNCHANGED vars
    BY <1>5, <1>s DEF Synchronise
  <1> QED  BY <1>1, <1>2, <1>3, <1>4, <1>5 DEF Next

LEMMA MoneyIsFollowed ==
    ASSUME "lost_answer" \notin Mishap
    PROVE  Spec => [](\A p \in Payer : MoneyStage(p))
  <1>1. Init => \A p \in Payer : MoneyStage(p)
    <2> SUFFICES ASSUME Init, NEW p \in Payer PROVE MoneyStage(p)
      OBVIOUS
    <2>1. p \in Actor /\ call[p].kind = "card" /\ at[p] = "idle"
      BY DEF Init, Actor, NoCall
    <2> QED  BY <2>1 DEF Init, MoneyStage, CardStage, NotTaken, Early, Moved
  <1>2. TypeOK /\ IntentInv /\ (\A p \in Payer : MoneyStage(p)) /\ [Next]_vars
          => (\A p \in Payer : MoneyStage(p))'
    BY StagesAreKept
  <1> QED  BY <1>1, <1>2, TypeCorrect, IntentsAreKept, PTL DEF Spec

-----------------------------------------------------------------------------
(* What the runs check.                                                    *)

\* A payment is booked in Priority once, for any number of payers and of deliveries, and
\* with every mishap: also when Stripe's answer is lost, when a snapshot is stale and
\* when the invoice is synchronised between two steps.
THEOREM BookedOnce == Spec => []OneReceiptPerPayment
  <1>1. TypeOK /\ IntentInv => OneReceiptPerPayment
    <2> SUFFICES ASSUME TypeOK, IntentInv, NEW p \in Payer PROVE Cardinality(ReceiptsOf(p)) <= 1
      BY DEF OneReceiptPerPayment
    <2>1. p \in ReceiptsOf(p) => \A h \in Hook : h \notin ReceiptsOf(p)
      <3>1. ASSUME NEW h \in Hook, h \in ReceiptsOf(p), p \in ReceiptsOf(p) PROVE FALSE
        <4>1. h[1] = p /\ receipt[h] = "approved"
          BY <3>1, ActorsAssumption DEF ReceiptsOf, Hook
        <4>2. call[p].kind = "debit"
          BY <4>1 DEF IntentInv, HookFlow
        <4>3. receipt[p] = "none"
          BY <4>2 DEF IntentInv, Flow
        <4> QED  BY <3>1, <4>3 DEF ReceiptsOf
      <3> QED  BY <3>1
    <2>2. \A a, b \in ReceiptsOf(p) : a = b
      <3>1. \A a \in ReceiptsOf(p) : a = p \/ (a \in Hook /\ a[1] = p /\ receipt[a] = "approved")
        BY DEF ReceiptsOf, Hook
      <3> QED  BY <2>1, <3>1 DEF IntentInv, OneApproved
    <2>3. CASE ReceiptsOf(p) = {}
      BY <2>3, FS_EmptySet
    <2>4. ASSUME NEW a \in ReceiptsOf(p) PROVE Cardinality(ReceiptsOf(p)) <= 1
      <3>1. ReceiptsOf(p) = {a}
        BY <2>2
      <3> QED  BY SMTT(40), <3>1, FS_Singleton
    <2> QED  BY <2>3, <2>4
  <1> QED  BY <1>1, TypeCorrect, IntentsAreKept, PTL

\* A delivery that ends without an error leaves the bank debit booked, with every mishap.
THEOREM ReturnedMeansBooked == Spec => []DebitBooked
  <1>1. LockOwned /\ TypeOK /\ IntentInv => DebitBooked
    <2> SUFFICES ASSUME LockOwned, TypeOK, IntentInv, NEW h \in Hook, at[h] = "returned",
                        stripe[h[1]] = "succeeded"
                 PROVE  ReceiptsOf(h[1]) # {} /\ pis[h[1]].status = "succeeded"
      BY DEF DebitBooked
    <2>1. h[1] \in tagged /\ call[h[1]].kind = "debit"
      BY DEF IntentInv, ReturnedIsTagged, HookFlow
    <2> QED  BY <2>1 DEF IntentInv, ReturnedIsTagged, TaggedIsBooked, ReceiptsOf, Hook
  <1> QED  BY <1>1, LockIsOwned, TypeCorrect, IntentsAreKept, PTL

\* An invoice that can be paid again shows every payment that was made, if Stripe always
\* answers; that is needed, as an intent that was charged without an answer is in no
\* document.
THEOREM UnlockedShowsPayments ==
    ASSUME "lost_answer" \notin Mishap
    PROVE  Spec => []UnlockedMeansBooked
  <1>1. TypeOK /\ LockOwned /\ IntentInv /\ (\A p \in Payer : MoneyStage(p)) => UnlockedMeansBooked
    <2> SUFFICES ASSUME TypeOK, LockOwned, IntentInv, ~locked, NEW p \in Charged, MoneyStage(p)
                 PROVE  /\ Recorded(p)
                        /\ call[p].kind = "card" =>
                              /\ pis[p].status = "succeeded"
                              /\ pis[p].received = call[p].amount + call[p].fee
                              /\ receipt[p] = "approved"
                              /\ fees[p] = IF call[p].fee > 0 THEN "approved" ELSE "none"
      BY DEF UnlockedMeansBooked, Charged
    <2>1. p \in Payer /\ p \in Actor /\ Flow(p) /\ stripe[p] \in {"processing", "succeeded"}
      BY PayerIsActor DEF Charged, IntentInv
    <2>2. at[p] \notin Blocking
      BY <2>1 DEF LockOwned, Blocks
    <2>3. at[p] \in {"idle", "lock", "returned", "lost"}
      BY <2>1, <2>2 DEF TypeOK, Place, Blocking, Flow, Ended
    <2>4. at[p] = "returned"
      BY <2>1, <2>3 DEF Flow, Untouched, Early
    <2>5. CASE call[p].kind = "card"
      BY <2>1, <2>4, <2>5 DEF MoneyStage, CardStage, NotTaken, Booked, ShownPaid, FeesAre,
         Recorded
    <2>6. CASE call[p].kind = "debit"
      BY <2>1, <2>4, <2>6 DEF MoneyStage, DebitStage
    <2> QED  BY <2>1, <2>5, <2>6, CallFields
  <1> QED  BY <1>1, LockIsOwned, TypeCorrect, IntentsAreKept, MoneyIsFollowed, PTL

\* What a call that fails leaves behind follows the money, under the same hypothesis.
THEOREM FailuresFollowMoney ==
    ASSUME "lost_answer" \notin Mishap
    PROVE  Spec => []LeftoversFollowMoney
  <1>1. TypeOK /\ IntentInv /\ (\A p \in Payer : MoneyStage(p)) => LeftoversFollowMoney
    <2> SUFFICES ASSUME TypeOK, IntentInv, \A p \in Payer : MoneyStage(p) PROVE LeftoversFollowMoney
      OBVIOUS
    <2>1. ASSUME NEW p \in Payer, call[p].kind = "card"
          PROVE  /\ "deleted" \in {receipt[p], fees[p]} => stripe[p] # "succeeded"
                 /\ "approved" \in {receipt[p], fees[p]} => stripe[p] = "succeeded"
      <3>1. CardStage(p) /\ Flow(p) /\ at[p] \in Place
        BY <2>1, PayerIsActor DEF MoneyStage, IntentInv, TypeOK
      <3>2. \/ at[p] \in Early \cup {"persist", "capture", "cancel", "record_cancel", "cleanup", "lost"}
            \/ at[p] \in Moved
            \/ at[p] \in {"unlock", "returned", "kept", "stuck", "dead"}
        BY <3>1 DEF Flow, Place, Holding, Undoing, Early, Ended
      <3> QED  BY <3>1, <3>2 DEF CardStage, NotTaken, Booked, FeesAre
    <2>2. ASSUME NEW a \in Actor, at[a] = "kept"
          PROVE  stripe[IF a \in Payer THEN a ELSE a[1]] \in {"processing", "succeeded", "failed"}
      BY <2>2 DEF IntentInv, Flow, HookFlow, Actor
    <2> QED  BY <2>1, <2>2 DEF LeftoversFollowMoney
  <1> QED  BY <1>1, TypeCorrect, IntentsAreKept, MoneyIsFollowed, PTL

=============================================================================
