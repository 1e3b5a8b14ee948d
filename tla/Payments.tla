------------------------------ MODULE Payments ------------------------------
(***************************************************************************)
(* Paying one invoice through Stripe (stripe/service): by a card, which is *)
(* authorised, recorded and only then captured, or by a bank debit (ACH,   *)
(* SEPA, BACS, ACSS), which is charged at once, settles days later and is  *)
(* booked by the handler of Stripe's event.  Three stores are involved and *)
(* nothing ties them together: the invoice document in Firestore with a    *)
(* lock that has no owner and no expiry, the payment intents at Stripe,    *)
(* and the open balance, receipts and fees invoices in Priority, the ERP.  *)
(*                                                                         *)
(* Invoices share nothing, so there is one.  An amount is a number of      *)
(* units.  A payer is one call of make...Payment, by PayInvoice or by the  *)
(* worker of the automatic payments; its payment intent has its name.      *)
(***************************************************************************)
EXTENDS Integers, FiniteSets, FiniteSetsExt

CONSTANTS
    Payer,          \* calls of make...Payment
    Attempt,        \* deliveries of the event of one payment intent
    Kind,           \* the payment methods in use: a subset of {"card", "debit"}
    Total,          \* the debit of the invoice
    Amount,         \* the amounts a user may ask to pay
    Fee,            \* the fees invoice of a card payment (0: exempt)
    MinRemainder,   \* what must be left of a partial payment (5.00)
    Mishap          \* what may go wrong, see Mishaps

\* "call_fails": a call to Firestore, Stripe or Priority fails and changes nothing.
\* "crash": a call ends at any step.  "lost_answer": Stripe charges and the request
\* fails.  "stale_snapshot": a bank debit takes the lock with a snapshot of the
\* invoice older than another payment.  "event_refused": the handler of an event
\* meets the lock.  "event_early": an event is handled before its payment is
\* recorded.  "sync_between": the invoice is synchronised between the approval of
\* a receipt and the transaction that books it.
Mishaps == {"call_fails", "crash", "lost_answer", "stale_snapshot", "event_refused",
            "event_early", "sync_between"}

ASSUME PaymentsAssumption ==
    /\ Total \in Nat \ {0} /\ Fee \in Nat /\ MinRemainder \in Nat
    /\ Amount \subseteq Nat \ {0}
    /\ Kind \subseteq {"card", "debit"}
    /\ Mishap \subseteq Mishaps

Hook == Payer \X Attempt     \* the handling of one delivery of an event

ASSUME ActorsAssumption == Payer \cap Hook = {}

Actor == Payer \cup Hook

VARIABLES
    locked,   \* stripeLocked of the invoice document
    debit,    \* DEBIT of the invoice document, as last synchronised
    pis,      \* stripePaymentIntents of the document, and the payment documents
    open,     \* Priority: the open balance of the invoice
    receipt,  \* Priority: the receipt that an actor has created
    fees,     \* Priority: the fees invoice of a card payment
    stripe,   \* Stripe: the status of the payment intents
    tagged,   \* Stripe: payment intents with a receipt_id in their metadata
    at,       \* the next step of each actor
    call      \* the arguments and local variables of each payer

docVars      == <<locked, debit, pis>>
priorityVars == <<open, receipt, fees>>
stripeVars   == <<stripe, tagged>>
vars == <<docVars, priorityVars, stripeVars, at, call>>

-----------------------------------------------------------------------------
IntentStatus == {"none", "requires_capture", "processing", "succeeded", "canceled",
                 "failed"}

\* invoices.StripePaymentIntent: "debit" is the debit of the invoice at that time.
Intent == [status : IntentStatus, amount : Nat, received : Nat, debit : Nat]
NoIntent == [status |-> "none", amount |-> 0, received |-> 0, debit |-> 0]

Document == {"none", "draft", "approved", "deleted"}

Whole == 0   \* no amount was given: the open balance is paid

\* snap and snapDebit are of the snapshot that was read before the lock was taken,
\* seen is the open balance that was read after it.
Call == [kind : {"card", "debit"}, amount : Nat, fee : Nat, seen : Nat,
         snap : [Payer -> Intent], snapDebit : Nat]

NoIntents == [p \in Payer |-> NoIntent]
NoCall == [kind |-> "card", amount |-> Whole, fee |-> 0, seen |-> 0,
           snap |-> NoIntents, snapDebit |-> 0]

\* The steps after which a payer still unlocks the invoice, those of a payer that
\* has moved money and unlocks only if everything succeeds, and the same of a handler.
Undoing  == {"check", "fees", "receipt", "authorize", "persist", "capture", "cancel",
             "record_cancel", "cleanup", "unlock", "charge"}
Moved    == {"approve_fees", "book", "patch", "approve", "tag", "persist_debit"}
HookStep == {"get", "draft", "patch_draft", "hook_unlock"}
HookMoved == {"hook_approve", "hook_tag", "hook_book"}

\* How an actor ends: it has returned, without booking its event ("lost"), with the
\* invoice left locked on purpose ("kept"), because unlocking failed ("stuck"), or it
\* has died with the lock ("dead").
Ended == {"returned", "lost", "kept", "stuck", "dead"}

Holding == Undoing \cup Moved \cup HookStep \cup HookMoved
Place   == {"idle", "lock", "event", "hook_lock"} \cup Holding \cup Ended

Holds(a) == at[a] \in Holding

Goes(a, from, to) == at[a] = from /\ at' = [at EXCEPT ![a] = to]

\* A call of actor a fails: nothing but its own step changes.
Fails(a, from, to) ==
    /\ "call_fails" \in Mishap
    /\ Goes(a, from, to)
    /\ UNCHANGED <<docVars, priorityVars, stripeVars, call>>

Init ==
    /\ locked = FALSE /\ debit = Total /\ pis = NoIntents
    /\ open = Total
    /\ receipt = [a \in Actor |-> "none"]
    /\ fees = [p \in Payer |-> "none"]
    /\ stripe = [p \in Payer |-> "none"]
    /\ tagged = {}
    /\ at = [a \in Actor |-> "idle"]
    /\ call = [p \in Payer |-> NoCall]

-----------------------------------------------------------------------------
(* Is an amount valid, given what is known of the invoice?                 *)

\* Mutant: whether the debit shows a payment already is not looked at.
ReceivedEver(ps, d) ==
    MapThenSumSet(LAMBDA p : ps[p].received,
        {p \in Payer : ps[p].status \in {"succeeded", "requires_capture"}})

\* What payments have received that the debit d does not yet show.
Received(ps, d) ==
    MapThenSumSet(LAMBDA p : ps[p].received,
        {p \in Payer : ps[p].status \in {"succeeded", "requires_capture"} /\ ps[p].debit = d})

Processing(ps) ==
    MapThenSumSet(LAMBDA p : ps[p].amount, {p \in Payer : ps[p].status = "processing"})

\* Mutant: payments that are being processed are not counted.
IgnoresProcessing(ps, d, amount, seen) ==
    LET left == d - Received(ps, d) - amount
    IN  d - Received(ps, d) = seen /\ (left = 0 \/ left >= MinRemainder)

IsValidAmount(ps, d, amount, seen) ==
    LET balance == d - Received(ps, d)
        left    == balance - Processing(ps) - amount
    IN  balance = seen /\ (left = 0 \/ left >= MinRemainder)

-----------------------------------------------------------------------------
(* The steps that both kinds of payment begin and end with.                *)

\* The invoice is read; the worker of the automatic payments, which gives no amount,
\* skips an invoice that is locked.
Read(p) ==
    /\ Goes(p, "idle", "lock")
    /\ \E k \in Kind, a \in Amount \cup {Whole}, f \in {0, Fee} :
        /\ k = "debit" => f = 0
        /\ a = Whole => ~locked
        /\ call' = [call EXCEPT ![p] = [kind |-> k, amount |-> a, fee |-> f, seen |-> 0,
                                        snap |-> pis, snapDebit |-> debit]]
    /\ UNCHANGED <<docVars, priorityVars, stripeVars>>

\* Mutant: unlocking is deferred before the lock is taken.
LockDefersFirst(p) ==
    /\ \/ ~locked /\ locked' = TRUE /\ Goes(p, "lock", "check")
       \/ locked /\ UNCHANGED locked /\ Goes(p, "lock", "unlock")
    /\ UNCHANGED <<debit, pis, priorityVars, stripeVars, call>>

Lock(p) ==
    /\ call[p].kind = "debit" /\ call[p].snap # pis => "stale_snapshot" \in Mishap
    /\ \/ ~locked /\ locked' = TRUE /\ Goes(p, "lock", "check")
       \/ locked /\ UNCHANGED locked /\ Goes(p, "lock", "returned")
    /\ UNCHANGED <<debit, pis, priorityVars, stripeVars, call>>

\* The checks on the snapshot and on the open balance, and what is read besides.
Check(p) ==
    LET c == call[p]
        amount == IF c.amount = Whole THEN open ELSE c.amount
        valid  == /\ c.snapDebit > 0
                  /\ open > 0
                  /\ IsValidAmount(c.snap, c.snapDebit, amount, open)
    IN  /\ Goes(p, "check", CASE ~valid -> "unlock"
                              [] valid /\ c.kind = "card" -> "fees"
                              [] OTHER -> "charge")
        /\ call' = [call EXCEPT ![p].amount = amount, ![p].seen = open,
                                ![p].snap = NoIntents, ![p].snapDebit = 0]
        /\ UNCHANGED <<docVars, priorityVars, stripeVars>>

Unlock(p) ==
    /\ Goes(p, "unlock", "returned")
    /\ locked' = FALSE
    /\ UNCHANGED <<debit, pis, priorityVars, stripeVars, call>>

\* The transaction that adds the payment intent to the invoice and creates the payment
\* document: it looks at the amount again, this time on the invoice as it is.
Persists(p, status) ==
    /\ IsValidAmount(pis, debit, call[p].amount, call[p].seen)
    /\ pis' = [pis EXCEPT ![p] = [status |-> status, amount |-> call[p].amount,
                                  received |-> 0, debit |-> debit]]
    /\ UNCHANGED <<locked, debit>>

IsDuplicate(p) == ~IsValidAmount(pis, debit, call[p].amount, call[p].seen)

-----------------------------------------------------------------------------
(* A payment by card.                                                      *)

CreateFeesInvoice(p) ==
    /\ Goes(p, "fees", "receipt")
    /\ fees' = IF call[p].fee > 0 THEN [fees EXCEPT ![p] = "draft"] ELSE fees
    /\ UNCHANGED <<docVars, open, receipt, stripeVars, call>>

CreateReceipt(p) ==
    /\ Goes(p, "receipt", "authorize")
    /\ receipt' = [receipt EXCEPT ![p] = "draft"]
    /\ UNCHANGED <<docVars, open, fees, stripeVars, call>>

\* The payment intent is created; it may be declined, or be authorised without an
\* answer, in which case nobody ever captures it.
Authorize(p) ==
    /\ \/ Goes(p, "authorize", "persist") /\ stripe' = [stripe EXCEPT ![p] = "requires_capture"]
       \/ Goes(p, "authorize", "cleanup") /\ UNCHANGED stripe
       \/ /\ "lost_answer" \in Mishap
          /\ Goes(p, "authorize", "cleanup")
          /\ stripe' = [stripe EXCEPT ![p] = "requires_capture"]
    /\ UNCHANGED <<docVars, priorityVars, tagged, call>>

PersistCard(p) ==
    /\ \/ Persists(p, "requires_capture") /\ Goes(p, "persist", "capture")
       \/ IsDuplicate(p) /\ UNCHANGED docVars /\ Goes(p, "persist", "cleanup")
    /\ UNCHANGED <<priorityVars, stripeVars, call>>

Capture(p) ==
    /\ \/ Goes(p, "capture", "approve_fees") /\ stripe' = [stripe EXCEPT ![p] = "succeeded"]
       \/ Goes(p, "capture", "cancel") /\ UNCHANGED stripe
       \/ /\ "lost_answer" \in Mishap
          /\ Goes(p, "capture", "cancel")
          /\ stripe' = [stripe EXCEPT ![p] = "succeeded"]
    /\ UNCHANGED <<docVars, priorityVars, tagged, call>>

\* Stripe cancels what is not captured.
CancelIntent(p) ==
    /\ \/ /\ stripe[p] = "requires_capture"
          /\ Goes(p, "cancel", "record_cancel")
          /\ stripe' = [stripe EXCEPT ![p] = "canceled"]
       \/ stripe[p] # "requires_capture" /\ Goes(p, "cancel", "cleanup") /\ UNCHANGED stripe
    /\ UNCHANGED <<docVars, priorityVars, tagged, call>>

RecordCancel(p) ==
    /\ Goes(p, "record_cancel", "cleanup")
    /\ pis' = [pis EXCEPT ![p].status = "canceled"]
    /\ UNCHANGED <<locked, debit, priorityVars, stripeVars, call>>

\* What a document may be after the deferred call that deletes a draft.
AfterDelete(d) ==
    IF d # "draft" THEN {d}
    ELSE {"deleted"} \cup (IF "call_fails" \in Mishap THEN {"draft"} ELSE {})

\* The deferred calls delete the draft receipt and the draft fees invoice; one that
\* cannot be deleted stays.
Cleanup(p) ==
    /\ Goes(p, "cleanup", "unlock")
    /\ \E r \in AfterDelete(receipt[p]), f \in AfterDelete(fees[p]) :
        /\ receipt' = [receipt EXCEPT ![p] = r]
        /\ fees' = [fees EXCEPT ![p] = f]
    /\ UNCHANGED <<docVars, open, stripeVars, call>>

\* The money is captured: the fees invoice is approved, ...
ApproveFees(p) ==
    /\ Goes(p, "approve_fees", "book")
    /\ fees' = IF fees[p] = "draft" THEN [fees EXCEPT ![p] = "approved"] ELSE fees
    /\ UNCHANGED <<docVars, open, receipt, stripeVars, call>>

\* ... the payment intent of the invoice updated, ...
BookCard(p) ==
    /\ Goes(p, "book", "patch")
    /\ pis' = [pis EXCEPT ![p].status = "succeeded",
                          ![p].received = call[p].amount + call[p].fee]
    /\ UNCHANGED <<locked, debit, priorityVars, stripeVars, call>>

\* ... the receipt patched, which needs the invoice among the open items, ...
PatchReceipt(p) ==
    /\ IF open > 0 THEN Goes(p, "patch", "approve") ELSE Goes(p, "patch", "kept")
    /\ UNCHANGED <<docVars, priorityVars, stripeVars, call>>

\* Priority takes an approved receipt from the open balance.
Settled(amount) == IF amount < open THEN open - amount ELSE 0

\* Mutant: the receipt is taken from the balance with its fees.
ApproveWithFees(p) ==
    /\ Goes(p, "approve", "tag")
    /\ receipt' = [receipt EXCEPT ![p] = "approved"]
    /\ open' = open - call[p].amount - call[p].fee
    /\ UNCHANGED <<docVars, fees, stripeVars, call>>

\* ... and approved.
ApproveReceipt(p) ==
    /\ Goes(p, "approve", "tag")
    /\ receipt' = [receipt EXCEPT ![p] = "approved"]
    /\ open' = Settled(call[p].amount)
    /\ UNCHANGED <<docVars, fees, stripeVars, call>>

\* A failure to update the metadata is only logged.
TagCard(p) ==
    /\ Goes(p, "tag", "unlock")
    /\ \/ tagged' = tagged \cup {p}
       \/ "call_fails" \in Mishap /\ UNCHANGED tagged
    /\ UNCHANGED <<docVars, priorityVars, stripe, call>>

-----------------------------------------------------------------------------
(* A payment by bank debit.                                                *)

\* The account is charged when the payment intent is created.
ChargeBank(p) ==
    /\ \/ Goes(p, "charge", "persist_debit") /\ stripe' = [stripe EXCEPT ![p] = "processing"]
       \/ Goes(p, "charge", "unlock") /\ UNCHANGED stripe
       \/ /\ "lost_answer" \in Mishap
          /\ Goes(p, "charge", "unlock")
          /\ stripe' = [stripe EXCEPT ![p] = "processing"]
    /\ UNCHANGED <<docVars, priorityVars, tagged, call>>

PersistDebit(p) ==
    /\ \/ Persists(p, "processing") /\ Goes(p, "persist_debit", "unlock")
       \/ IsDuplicate(p) /\ UNCHANGED docVars /\ Goes(p, "persist_debit", "kept")
    /\ UNCHANGED <<priorityVars, stripeVars, call>>

\* Mutant: shouldUnlock stays true.
FailsUnlocking(p) == \E s \in Moved \ {"tag"} : Fails(p, s, "unlock")

\* Mutant: the flags of the drafts stay true.
FailsDeleting(p) == \E s \in Moved \ {"tag"} : Fails(p, s, "cleanup")

\* A call of a payer fails: before money is moved the drafts are deleted and the
\* invoice is unlocked, after that it stays locked.
PayerCallFails(p) ==
    \/ \E s \in {"check", "fees", "charge"} : Fails(p, s, "unlock")
    \/ \E s \in {"receipt", "persist", "record_cancel", "cancel"} : Fails(p, s, "cleanup")
    \/ \E s \in Moved \ {"tag"} : Fails(p, s, "kept")
    \/ Fails(p, "lock", "returned")
    \/ Fails(p, "unlock", "stuck")

PayerWorks(p) ==
    \/ Lock(p) \/ Check(p) \/ Unlock(p)
    \/ CreateFeesInvoice(p) \/ CreateReceipt(p) \/ Authorize(p) \/ PersistCard(p)
    \/ Capture(p) \/ CancelIntent(p) \/ RecordCancel(p) \/ Cleanup(p)
    \/ ApproveFees(p) \/ BookCard(p) \/ PatchReceipt(p) \/ ApproveReceipt(p) \/ TagCard(p)
    \/ ChargeBank(p) \/ PersistDebit(p)
    \/ PayerCallFails(p)

-----------------------------------------------------------------------------
(* Stripe, and the handler of its events.                                  *)

\* A bank debit is settled, or is returned by the bank.
SettleDebit(p) ==
    /\ stripe[p] = "processing"
    /\ \E s \in {"succeeded", "failed"} : stripe' = [stripe EXCEPT ![p] = s]
    /\ UNCHANGED <<docVars, priorityVars, tagged, at, call>>

\* An event of a bank debit is delivered, any number of times; that of a card changes
\* nothing.
Deliver(h) ==
    LET p == h[1] IN
    /\ call[p].kind = "debit" /\ stripe[p] \in {"succeeded", "failed"}
    /\ at[p] = "persist_debit" => "event_early" \in Mishap
    /\ Goes(h, "idle", "event")
    /\ UNCHANGED <<docVars, priorityVars, stripeVars, call>>

Recorded(p) == pis[p].status # "none"

\* The payment document is read: without it the handler gives up.  Any error is logged,
\* and Stripe is told that the event was handled.
HookReads(h) ==
    LET p == h[1] IN
    /\ \/ ~Recorded(p) /\ Goes(h, "event", "lost") /\ UNCHANGED pis
       \/ /\ Recorded(p) /\ stripe[p] = "succeeded"
          /\ Goes(h, "event", "hook_lock")
          /\ UNCHANGED pis
       \/ /\ Recorded(p) /\ stripe[p] = "failed"
          /\ Goes(h, "event", "returned")
          /\ pis' = [pis EXCEPT ![p].status = "failed"]
    /\ UNCHANGED <<locked, debit, priorityVars, stripeVars, call>>

HookLocks(h) ==
    /\ \/ ~locked /\ locked' = TRUE /\ Goes(h, "hook_lock", "get")
       \/ /\ locked /\ "event_refused" \in Mishap
          /\ UNCHANGED locked
          /\ Goes(h, "hook_lock", "lost")
    /\ UNCHANGED <<debit, pis, priorityVars, stripeVars, call>>

\* Mutant: an event that was handled before is handled again.
HookGetsAgain(h) ==
    /\ Goes(h, "get", "draft")
    /\ UNCHANGED <<docVars, priorityVars, stripeVars, call>>

\* A payment intent that names a receipt was handled before.
HookGets(h) ==
    /\ IF h[1] \in tagged THEN Goes(h, "get", "hook_unlock") ELSE Goes(h, "get", "draft")
    /\ UNCHANGED <<docVars, priorityVars, stripeVars, call>>

HookDrafts(h) ==
    /\ Goes(h, "draft", "patch_draft")
    /\ receipt' = [receipt EXCEPT ![h] = "draft"]
    /\ UNCHANGED <<docVars, open, fees, stripeVars, call>>

HookPatches(h) ==
    /\ IF open > 0 THEN Goes(h, "patch_draft", "hook_approve")
                   ELSE Goes(h, "patch_draft", "hook_unlock")
    /\ UNCHANGED <<docVars, priorityVars, stripeVars, call>>

HookApproves(h) ==
    /\ Goes(h, "hook_approve", "hook_tag")
    /\ receipt' = [receipt EXCEPT ![h] = "approved"]
    /\ open' = Settled(call[h[1]].amount)
    /\ UNCHANGED <<docVars, fees, stripeVars, call>>

\* Mutant: the transaction that books the payment is left out.
HookTagsOnly(h) ==
    /\ Goes(h, "hook_tag", "hook_unlock")
    /\ tagged' = tagged \cup {h[1]}
    /\ UNCHANGED <<docVars, priorityVars, stripe, call>>

HookTags(h) ==
    /\ Goes(h, "hook_tag", "hook_book")
    /\ tagged' = tagged \cup {h[1]}
    /\ UNCHANGED <<docVars, priorityVars, stripe, call>>

\* The intent gets the debit that the invoice has now.
HookBooks(h) ==
    LET p == h[1] IN
    /\ Goes(h, "hook_book", "hook_unlock")
    /\ pis' = [pis EXCEPT ![p].status = "succeeded", ![p].received = call[p].amount,
                          ![p].debit = debit]
    /\ UNCHANGED <<locked, debit, priorityVars, stripeVars, call>>

HookUnlocks(h) ==
    /\ Goes(h, "hook_unlock", IF h[1] \in tagged THEN "returned" ELSE "lost")
    /\ locked' = FALSE
    /\ UNCHANGED <<debit, pis, priorityVars, stripeVars, call>>

\* The same of a handler: until it has approved a receipt it unlocks the invoice.
HookCallFails(h) ==
    \/ \E s \in {"event", "hook_lock"} : Fails(h, s, "lost")
    \/ \E s \in {"get", "draft", "patch_draft"} : Fails(h, s, "hook_unlock")
    \/ \E s \in HookMoved : Fails(h, s, "kept")
    \/ Fails(h, "hook_unlock", "stuck")

HookWorks(h) ==
    \/ HookReads(h) \/ HookLocks(h) \/ HookGets(h) \/ HookDrafts(h) \/ HookPatches(h)
    \/ HookApproves(h) \/ HookTags(h) \/ HookBooks(h) \/ HookUnlocks(h)
    \/ HookCallFails(h)

\* Nobody releases the lock of a call that has died.
Crash(a) ==
    /\ "crash" \in Mishap
    /\ at[a] \notin Ended \cup {"idle"}
    /\ at' = [at EXCEPT ![a] = IF Holds(a) THEN "dead" ELSE "lost"]
    /\ UNCHANGED <<docVars, priorityVars, stripeVars, call>>

\* Invoices are copied from Priority to Firestore, locked or not, by a task with the
\* balance of the time when it was created, which may be any down to the open one.
Synchronise ==
    /\ "sync_between" \in Mishap \/ \A h \in Hook : at[h] \notin {"hook_tag", "hook_book"}
    /\ \E balance \in open..Total \ {debit} : debit' = balance
    /\ UNCHANGED <<locked, pis, priorityVars, stripeVars, at, call>>

Next ==
    \/ \E p \in Payer : Read(p) \/ PayerWorks(p) \/ SettleDebit(p)
    \/ \E h \in Hook : Deliver(h) \/ HookWorks(h)
    \/ \E a \in Actor : Crash(a)
    \/ Synchronise

Spec == Init /\ [][Next]_vars

-----------------------------------------------------------------------------
(* Properties.                                                             *)

TypeOK ==
    /\ locked \in BOOLEAN /\ debit \in Nat /\ open \in Nat
    /\ pis \in [Payer -> Intent]
    /\ receipt \in [Actor -> Document]
    /\ fees \in [Payer -> Document]
    /\ stripe \in [Payer -> IntentStatus]
    /\ tagged \subseteq Payer
    /\ at \in [Actor -> Place]
    /\ call \in [Payer -> Call]

\* The lock of an invoice (dal/stripe_firestore.go LockInvoice, payments.go lock) names
\* no owner and is released without a look at it; still at most one call is ever
\* between taking and releasing it, and the invoice is locked for as long.
LockExcludes ==
    /\ \A a \in Actor : Holds(a) => locked
    /\ \A a, b \in Actor : Holds(a) /\ Holds(b) => a = b

Charged == {p \in Payer : stripe[p] \in {"processing", "succeeded"}}

\* The customer never pays more than the invoice: what bank debits and captured cards
\* take together is at most its total (pay_card.go and pay_ach.go answer anything more
\* with "possible duplicate payment").
NeverOvercharged == MapThenSumSet(LAMBDA p : call[p].amount, Charged) <= Total

ReceiptsOf(p) == {a \in {p} \cup ({p} \X Attempt) : receipt[a] = "approved"}

\* A payment is booked in Priority once, though the event that asks for it is
\* delivered again and again and each delivery creates a receipt of its own.
OneReceiptPerPayment == \A p \in Payer : Cardinality(ReceiptsOf(p)) <= 1

\* An invoice that can be paid again shows every payment that was made: a captured card
\* is in the document with all it received, with its receipt and its fees invoice
\* approved, and a bank debit is in the document.
UnlockedMeansBooked ==
    ~locked => \A p \in Charged :
        /\ Recorded(p)
        /\ call[p].kind = "card" =>
              /\ pis[p].status = "succeeded"
              /\ pis[p].received = call[p].amount + call[p].fee
              /\ receipt[p] = "approved"
              /\ fees[p] = IF call[p].fee > 0 THEN "approved" ELSE "none"

\* What a call that fails leaves behind follows the money: the documents of a card
\* payment are not deleted after the capture and not approved without it, and the
\* invoice stays locked only after money has moved (the comment in pay_card.go: "unlock
\* invoice only if function ended successfully").
LeftoversFollowMoney ==
    /\ \A p \in Payer : call[p].kind = "card" =>
        /\ "deleted" \in {receipt[p], fees[p]} => stripe[p] # "succeeded"
        /\ "approved" \in {receipt[p], fees[p]} => stripe[p] = "succeeded"
    /\ \A a \in Actor : at[a] = "kept" =>
        stripe[IF a \in Payer THEN a ELSE a[1]] \in {"processing", "succeeded", "failed"}

\* What is left of an invoice can be paid: when nothing is under way and the document
\* shows the balance of Priority, the balance is a valid amount.
RemainderPayable ==
    ~locked /\ debit = open /\ open > 0 /\ (\A p \in Payer : pis[p].status # "processing")
        => IsValidAmount(pis, debit, open, open)

\* A delivery of a successful bank debit that ends without an error leaves the debit
\* booked: there is a receipt for it and the document says that it succeeded, also when
\* the delivery only found that another one was there first (webhooks.go).
DebitBooked ==
    \A h \in Hook : at[h] = "returned" /\ stripe[h[1]] = "succeeded" =>
        /\ ReceiptsOf(h[1]) # {}
        /\ pis[h[1]].status = "succeeded"

=============================================================================
