------------------------------- MODULE Compat -------------------------------
(***************************************************************************)
(* Model-pair compatibility (src/core/compat.cpp): the decision run_cycle  *)
(* asks for before it admits a cycle, over the identities of the draft and *)
(* the target model (core/model.hpp).  The decision is computed anew each  *)
(* time; nothing is cached.  The reasons are a set here: their order and   *)
(* wording only reach a message.  Device, executor name and model name     *)
(* take no part in it.                                                     *)
(***************************************************************************)
EXTENDS Integers

\* id 0 is the null id; hash stands for the contents of the vocabulary.
TokenizerIdentity(id, name, vocab, hash) ==
    [id |-> id, name |-> name, vocab_size |-> vocab, hash |-> hash]

\* adapter: <<>> for a model without one.
ModelIdentity(model, revision, tokenizer, adapter, kind, protocol) ==
    [model |-> model, revision |-> revision, tokenizer |-> tokenizer,
     adapter |-> adapter, kind |-> kind, protocol |-> protocol]

SameExecutorKind(a, b) == a = b \/ a = "Unknown" \/ b = "Unknown"

\* Mutant: tokenizers compared by their id.
SameTokenizerById(p, v) == p.tokenizer.id = v.tokenizer.id
SameTokenizer(p, v) == p.tokenizer = v.tokenizer

\* A candidate protocol version of 0 is unset and compared with nothing.
ProtocolMismatch(p, v) == p.protocol # 0 /\ v.protocol # 0 /\ p.protocol # v.protocol

\* The reasons that do not make a pair incompatible.
Informative == {"revision_mismatch"}

Reasons(p, v, protocolVersion) ==
    LET Because(code, holds) == IF holds THEN {code} ELSE {} IN
    UNION {Because("tokenizer_mismatch", ~SameTokenizer(p, v)),
           Because("missing_tokenizer_identity", SameTokenizer(p, v) /\ p.tokenizer.id = 0),
           Because("vocabulary_size_mismatch", p.tokenizer.vocab_size # v.tokenizer.vocab_size),
           Because("adapter_stack_mismatch", (p.adapter = <<>>) # (v.adapter = <<>>)),
           Because("adapter_mismatch",
                   p.adapter # <<>> /\ v.adapter # <<>> /\ p.adapter # v.adapter),
           Because("executor_kind_mismatch", ~SameExecutorKind(p.kind, v.kind)),
           Because("candidate_protocol_mismatch", ProtocolMismatch(p, v)),
           Because("missing_protocol_version", protocolVersion = 0),
           Because("revision_mismatch", p.model = v.model /\ p.revision # v.revision)}

EvaluateCompatibility(p, v, protocolVersion) ==
    LET reasons == Reasons(p, v, protocolVersion)
    IN [compatible |-> reasons \subseteq Informative, reasons |-> reasons]
=============================================================================
