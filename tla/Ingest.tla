------------------------------- MODULE Ingest -------------------------------
(***************************************************************************)
(* What the server does with one conversation of a sync request            *)
(* (server/src/routes/sync.ts, ingestConversation) and with its raw        *)
(* archive (engine/src/core/store/pg.ts, storeRaw).                        *)
(*                                                                         *)
(* The stored conversation is an envelope: the messages, the offset `o` it *)
(* is synced through, and a rebuild in progress, if any.  One record of    *)
(* the transcript is one message.  Each operator returns the new envelope, *)
(* the new archive and what the reply says of the session.                 *)
(***************************************************************************)
EXTENDS Naturals, Sequences, Absence, Shadow


Staged == [msgs: Seq(Nat), o: Nat]
Envelope == [msgs: Seq(Nat), o: Nat, rebuild: Staged \cup {None}]

\* The raw archive: its records and the mtime it was captured at.
Archive == [recs: Seq(Nat), m: Nat]
NoArchive == [recs |-> <<>>, m |-> 0]

Request ==
    [kind: {"full", "head", "append"}, msgs: Seq(Nat), base: Nat, o: Nat,
     final: BOOLEAN, m: Nat, inline: BOOLEAN, hash: Seq(Nat) \cup {None},
     parts: Seq(Nat)]

Reply == {"ok", "resync", "guarded", "staged"}

Outcome(env, arch, reply) == [env |-> env, arch |-> arch, reply |-> reply]

-----------------------------------------------------------------------------
(* Raw archive *)

\* storeRaw: equal size and not newer changes nothing, smaller is refused.
RawResult(arch, recs, m) ==
    CASE Len(recs) = Len(arch.recs) /\ arch.m >= m -> "unchanged"
      [] Len(recs) < Len(arch.recs) -> "shrink-protected"
      [] OTHER -> "stored"

StoreRaw(arch, recs, m) ==
    IF RawResult(arch, recs, m) = "stored" THEN [recs |-> recs, m |-> m] ELSE arch

\* An inline archive that is refused as smaller is merged with the stored one,
\* and stored when the union is larger.
PutRaw(arch, recs, m) ==
    LET union == Merge(arch.recs, recs)
        merges == RawResult(arch, recs, m) = "shrink-protected" /\ Len(union) > Len(arch.recs)
    IN  [result |-> IF merges THEN "stored" ELSE RawResult(arch, recs, m),
         arch |-> StoreRaw(arch, IF merges THEN union ELSE recs, m)]

-----------------------------------------------------------------------------
(* Conversation *)

Fewer(msgs, env) == env # None /\ Len(msgs) < Len(env.msgs)

\* A whole conversation replaces the stored one unless the shrink guard fires.
IngestFull(env, arch, q) ==
    LET raw == IF q.inline THEN PutRaw(arch, q.msgs, q.m) ELSE [result |-> "none", arch |-> arch]
        suspect == \/ raw.result = "shrink-protected"
                   \/ raw.result = "none" /\ 2 * Len(q.msgs) < Len(env.msgs)
    IN  IF Fewer(q.msgs, env) /\ suspect
          THEN Outcome(env, raw.arch, "guarded")
          ELSE Outcome([msgs |-> q.msgs, o |-> q.o, rebuild |-> None], raw.arch, "ok")

\* Mutant: the head replaces what is stored.
IngestHeadOver(env, arch, q) ==
    Outcome([msgs |-> q.msgs, o |-> q.o, rebuild |-> None], arch, "ok")

\* The head of a chunked conversation is staged beside a fuller stored one.
IngestHead(env, arch, q) ==
    IF Fewer(q.msgs, env)
      THEN Outcome([env EXCEPT !.rebuild = [msgs |-> q.msgs, o |-> q.o]], arch, "staged")
      ELSE Outcome([msgs |-> q.msgs, o |-> q.o, rebuild |-> None], arch, "ok")

\* Mutant: any append continues a rebuild in progress.
ContinuesAnyRebuild(env, q) == env # None /\ env.rebuild # None

\* An append continues the rebuild it fits: a final one decides whether the
\* rebuilt conversation takes the stored one's place.
ContinuesRebuild(env, q) == env # None /\ env.rebuild # None /\ env.rebuild.o = q.base

ExtendRebuild(env, arch, q) ==
    LET rebuilt == env.rebuild.msgs \o q.msgs
    IN  CASE ~q.final ->
               Outcome([env EXCEPT !.rebuild = [msgs |-> rebuilt, o |-> q.o]], arch, "ok")
          [] q.final /\ Fewer(rebuilt, env) ->
               Outcome([env EXCEPT !.rebuild = None], arch, "ok")
          [] q.final /\ ~Fewer(rebuilt, env) ->
               Outcome([msgs |-> rebuilt, o |-> q.o, rebuild |-> None], arch, "ok")

\* Mutant: without the offset-continuity guard.
IngestAppendAnywhere(env, arch, q) ==
    CASE ContinuesRebuild(env, q) -> ExtendRebuild(env, arch, q)
      [] ~ContinuesRebuild(env, q) /\ env # None ->
           Outcome([msgs |-> env.msgs \o q.msgs, o |-> q.o, rebuild |-> None], arch, "ok")
      [] OTHER -> Outcome(env, arch, "resync")

\* Otherwise the offset-continuity guard: the tail must start where the stored
\* conversation ends.
IngestAppend(env, arch, q) ==
    CASE ContinuesRebuild(env, q) -> ExtendRebuild(env, arch, q)
      [] ~ContinuesRebuild(env, q) /\ env # None /\ env.o = q.base ->
           Outcome([msgs |-> env.msgs \o q.msgs, o |-> q.o, rebuild |-> None], arch, "ok")
      [] OTHER -> Outcome(env, arch, "resync")

IngestConversation(env, arch, q) ==
    CASE q.kind = "append" -> IngestAppend(env, arch, q)
      [] q.kind = "head" -> IngestHead(env, arch, q)
      [] q.kind = "full" -> IngestFull(env, arch, q)
=============================================================================
