-------------------------- MODULE AttemptContract --------------------------
(***************************************************************************)
(* What an attempt promises its readers, whoever submits it: it is open    *)
(* until it is closed, and closing is for good; a writer is admitted only  *)
(* while it is open; one receipt is issued, at or after the close, and is  *)
(* never replaced; grading starts at the close.  ExamAttempt implements    *)
(* this.                                                                   *)
(***************************************************************************)
CONSTANTS Questions, Entries, Writers, Receipts, NoReceipt, NoResult, Blank

VARIABLES
    open,      \* does the attempt accept answers?
    writers,   \* the writes that were admitted and are not done
    content,   \* the answers
    receipt,   \* the receipt, or NoReceipt
    graded     \* the answers that were graded, or NoResult

cvars == <<open, writers, content, receipt, graded>>

Init ==
    /\ open = TRUE
    /\ writers = {}
    /\ content = [q \in Questions |-> Blank]
    /\ receipt = NoReceipt
    /\ graded = NoResult

Admit(w) ==
    /\ open
    /\ writers' = writers \cup {w}
    /\ UNCHANGED <<open, content, receipt, graded>>

\* A write is applied to one question, or dropped.
Finish(w) ==
    /\ w \in writers
    /\ writers' = writers \ {w}
    /\ \/ \E q \in Questions, v \in Entries :
             content' = [content EXCEPT ![q] = v]
       \/ content' = content
    /\ UNCHANGED <<open, receipt, graded>>

\* Close, issue the receipt and grade, in one step or in several.
Conclude ==
    /\ open' = FALSE
    /\ receipt' = receipt \/ (receipt = NoReceipt /\ receipt' \in Receipts)
    /\ graded' = graded \/ graded' \in [Questions -> Entries]
    /\ UNCHANGED <<writers, content>>

Next == Conclude \/ \E w \in Writers : Admit(w) \/ Finish(w)

Spec == Init /\ [][Next]_cvars

=============================================================================
