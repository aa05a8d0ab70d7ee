----------------------------- MODULE CpuExecutors -----------------------------
(***************************************************************************)
(* One proposal by CpuProposerExecutor::propose and its verification by    *)
(* CpuVerifierExecutor::verify (src/core/cpu_proposer.cpp,                 *)
(* src/core/cpu_verifier.cpp).                                             *)
(*                                                                         *)
(* Both walk the same synthetic target model.  Its hidden state is a       *)
(* function of the seed and of the tokens stepped through since, so its    *)
(* next token is some fixed function of <<base, history>>: the seed mixes  *)
(* the authoritative generation, the model revision and the candidate's    *)
(* length, of which only the generation can differ between the two calls.  *)
(* That function is not computed here.  `target` holds the values asked    *)
(* for so far, each of them any token.                                     *)
(***************************************************************************)
EXTENDS Integers, Sequences

CONSTANTS
    VocabSize,          \* kSyntheticVocab
    ModelBound,         \* the deepest proposal the model produces (256)
    MaxDepth,           \* the depths asked for are 0..MaxDepth
    Branches            \* the branch_index values

ASSUME ExecutorConstants ==
    /\ VocabSize \in Nat \ {0, 1}
    /\ ModelBound \in Nat \ {0}
    /\ MaxDepth \in Nat \ {0}
    /\ Branches \subseteq 0..(VocabSize - 2)

Vocab == 0..(VocabSize - 1)
Bases == {"dispatched", "moved"}

VARIABLES
    depth,              \* ProposalInput::depth
    branch,             \* ProposalInput::branch_index (on CUDA the constructor's branch_index)
    aligned,            \* CpuProposerConfig::aligned_tokens, the constructor's on CUDA
    tokenizer,          \* VerificationInput carries a tokenizer identity
    base,               \* the authority the verifier sees: as dispatched, or moved on
    target,             \* the target model, as far as it was asked
    pc,                 \* propose, verify, compare, done
    has,                \* ProposalResult::candidate is present
    candidate,          \* the proposer's tokens
    truth,              \* the tokens the verifier stepped through
    perPosition,        \* AcceptanceResult::per_position
    acceptedPrefix,     \* AcceptanceResult::accepted_prefix
    firstRejection,     \* AcceptanceResult::first_rejection_index
    outcome             \* AcceptanceResult::outcome

input == <<depth, branch, aligned, tokenizer, base>>
proposal == <<has, candidate>>
verdict == <<truth, perPosition, acceptedPrefix, firstRejection, outcome>>
vars == <<input, target, pc, proposal, verdict>>

Outcomes == {"FullAccept", "PartialAccept", "RejectAll", "VerifierFailure"}

TypeOK ==
    /\ depth \in 0..MaxDepth /\ branch \in Branches
    /\ aligned \in 0..MaxDepth /\ tokenizer \in BOOLEAN /\ base \in Bases
    /\ \A h \in DOMAIN target : h \in Bases \X Seq(Vocab) /\ target[h] \in Vocab
    /\ pc \in {"propose", "verify", "compare", "done"}
    /\ has \in BOOLEAN
    /\ candidate \in Seq(Vocab) /\ truth \in Seq(Vocab)
    /\ perPosition \in Seq(BOOLEAN)
    /\ acceptedPrefix \in Nat /\ firstRejection \in Nat
    /\ outcome \in Outcomes

Init ==
    /\ depth \in 0..MaxDepth /\ branch \in Branches
    /\ aligned \in 0..MaxDepth /\ tokenizer \in BOOLEAN /\ base \in Bases
    /\ target = <<>>
    /\ pc = "propose"
    /\ has = FALSE
    /\ candidate = <<>> /\ truth = <<>> /\ perPosition = <<>>
    /\ acceptedPrefix = 0 /\ firstRejection = 0
    /\ outcome = "RejectAll"
-----------------------------------------------------------------------------
\* SyntheticModel: after history h from base b the target's next token is e.
Expects(b, h, e) ==
    LET q == <<b, h>> IN
    /\ q \in DOMAIN target => e = target[q]
    /\ target' = [p \in DOMAIN target \cup {q} |-> IF p = q THEN e ELSE target[p]]

\* A depth the executors do not refuse.
Draftable == depth \in 1..ModelBound

\* No depth, or one beyond the model's bound: a result with a failed outcome
\* and no candidate, but not an error.  The refusal over a compute_budget has
\* the same effect, and does not happen: the engine leaves it at 0 (none).
ProposeRefused ==
    /\ pc = "propose" /\ ~Draftable
    /\ pc' = "verify"
    /\ UNCHANGED <<input, target, proposal, verdict>>

\* Mutant: the perturbed token not brought back into the vocabulary.
DraftTokenUnwrapped(i, e) ==
    IF i < aligned THEN e ELSE e + 1 + branch

\* The expected token in the aligned prefix, a different one after it.
DraftToken(i, e) ==
    IF i < aligned THEN e ELSE (e + 1 + branch) % VocabSize

\* One iteration of the proposer's loop: it follows its own tokens.
ProposeToken ==
    /\ pc = "propose" /\ Draftable
    /\ Len(candidate) < depth
    /\ \E e \in Vocab :
          /\ Expects("dispatched", candidate, e)
          /\ candidate' = Append(candidate, DraftToken(Len(candidate), e))
    /\ UNCHANGED <<input, pc, has, verdict>>

ProposeDone ==
    /\ pc = "propose" /\ Draftable
    /\ Len(candidate) = depth
    /\ has' = TRUE
    /\ pc' = "verify"
    /\ UNCHANGED <<input, target, candidate, verdict>>

\* The verifier gives up on an empty candidate (what the engine hands it when
\* there is none) and without a tokenizer identity: nothing is accepted.  A
\* vocabulary of another size ends in the same way; the engine always says 4096.
VerifierFails ==
    /\ pc = "verify"
    /\ candidate = <<>> \/ ~tokenizer
    /\ outcome' = "VerifierFailure"
    /\ pc' = "done"
    /\ UNCHANGED <<input, target, proposal, truth, perPosition, acceptedPrefix,
                   firstRejection>>

VerifyStart ==
    /\ pc = "verify"
    /\ candidate # <<>> /\ tokenizer
    /\ firstRejection' = Len(candidate)
    /\ pc' = "compare"
    /\ UNCHANGED <<input, target, proposal, truth, perPosition, acceptedPrefix, outcome>>

\* Mutant: the last rejection instead of the first.
FirstRejectionLast(ok, i) ==
    IF ok THEN firstRejection ELSE i

\* first_rejection_index keeps the first position that differs.
FirstRejection(ok, i) ==
    IF ~ok /\ firstRejection = Len(candidate) THEN i ELSE firstRejection

\* One iteration of the verifier's loop.  It steps along the target's token,
\* never the proposed one, and accepted_prefix counts every
\* position that agrees, those after a rejection too.
VerifyToken ==
    /\ pc = "compare"
    /\ Len(truth) < Len(candidate)
    /\ \E e \in Vocab :
          LET i   == Len(truth)
              tok == candidate[i + 1]
              ok  == e = tok
          IN /\ Expects(base, truth, e)
             /\ truth' = Append(truth, e)
             /\ perPosition' = Append(perPosition, ok)
             /\ acceptedPrefix' = IF ok THEN acceptedPrefix + 1 ELSE acceptedPrefix
             /\ firstRejection' = FirstRejection(ok, i)
    /\ UNCHANGED <<input, pc, proposal, outcome>>

Classify(acc, n) ==
    IF acc = n THEN "FullAccept" ELSE IF acc = 0 THEN "RejectAll" ELSE "PartialAccept"

VerifyDone ==
    /\ pc = "compare"
    /\ Len(truth) = Len(candidate)
    /\ outcome' = Classify(acceptedPrefix, Len(candidate))
    /\ pc' = "done"
    /\ UNCHANGED <<input, target, proposal, truth, perPosition, acceptedPrefix, firstRejection>>

Next ==
    \/ ProposeRefused \/ ProposeToken \/ ProposeDone
    \/ VerifierFails \/ VerifyStart \/ VerifyToken \/ VerifyDone

Spec == Init /\ [][Next]_vars
-----------------------------------------------------------------------------
(***************************************************************************)
(* Properties                                                              *)
(***************************************************************************)
Verified == pc = "done" /\ outcome # "VerifierFailure"
Smaller(a, b) == IF a < b THEN a ELSE b

\* Verified against the authority it was dispatched from, a draft diverges
\* exactly at the alignment boundary: the two executors, one following its own
\* tokens and one the target's, agree on everything before it
\* (cpu_proposer.hpp CpuProposerConfig::aligned_tokens).
DivergesAtAlignment ==
    Verified /\ base = "dispatched" =>
        firstRejection = Smaller(aligned, Len(candidate))

\* core/verification.hpp:58-59 "The acceptance prefix is the sequence of
\* positions [0, accepted_prefix) that the verifier accepted".
AcceptedPrefixIsAccepted ==
    Verified => \A k \in 1..acceptedPrefix : perPosition[k]
=============================================================================
