------------------------- MODULE CoordinatorDocument -------------------------
(***************************************************************************)
(* The document the Durable Object stores for a profile                    *)
(* (StoredCoordinatorDocument in                                           *)
(* crates/cloudflare-adapters/src/profile_coordinator.rs): an optional     *)
(* checkpoint and the journal of the commands accepted since.  The         *)
(* coordinator is never stored; every request replays the document.  When  *)
(* the journal reaches CompactAt entries, all but the last RetainRecent    *)
(* are folded into the checkpoint, which keeps no receipts: the            *)
(* idempotency window has to come back out of the retained journal, and    *)
(* the identity of the last claimant out of the checkpoint.                *)
(***************************************************************************)
EXTENDS CoordinatorDomain, FiniteSetsExt

CONSTANTS
    CompactAt,      \* COMPACT_JOURNAL_AT
    RetainRecent    \* RETAIN_RECENT_COMMANDS

\* "Keep the same recent-command idempotency window as the domain."
ASSUME CompactionAssumption ==
    /\ CompactAt \in Nat
    /\ RetainRecent \in Nat
    /\ ReceiptLimit <= RetainRecent
    /\ RetainRecent < CompactAt

VARIABLES
    doc,       \* the stored document
    ended,     \* history: the writer credentials of every lease that ended
    claimant,  \* history: who made the last accepted claim
    reserved   \* history: the claimant of a lease that ended Uncertain, until
               \* the owner marks the profile recovered or it is claimed again

docVars == <<doc, ended, claimant, reserved>>

-----------------------------------------------------------------------------
(* The document.                                                           *)

ClaimIdentity == [actor_id : Actors, device_id : Devices, session_id : Sessions]

IdentityOf(c) ==
    [actor_id |-> c.actor_id, device_id |-> c.device_id,
     session_id |-> c.session_id]

NewDocument == [checkpoint |-> {}, journal |-> << >>]

\* restore_base.
RestoreBase(d) ==
    IF d.checkpoint = {} THEN NewCoordinator
    ELSE (CHOOSE k \in d.checkpoint : TRUE).state

\* The coordinator after the first n entries of the journal of d.
StateAfter(d, n) ==
    LET after[i \in 0 .. n] ==
            IF i = 0 THEN RestoreBase(d) ELSE Apply(after[i - 1], d.journal[i])
    IN  after[n]

Replay(d) == StateAfter(d, Len(d.journal))

\* restore_base and the loop of replay return no error.
Readable(d) ==
    /\ \A k \in d.checkpoint : Restorable(k.state)
    /\ \A i \in DOMAIN d.journal :
          NewlyAccepted(StateAfter(d, i - 1), d.journal[i])

\* The claim of the most recent Claim entry, or else of the checkpoint.
LastClaimOf(journal, checkpoint) ==
    LET claims == {i \in DOMAIN journal : journal[i].command.type = "Claim"}
    IN  IF claims # {} THEN {IdentityOf(journal[Max(claims)].command)}
        ELSE UNION {k.last_claim : k \in checkpoint}

LastClaim(d) == LastClaimOf(d.journal, d.checkpoint)

LastClaimMatches(d, c) ==
    \E k \in LastClaim(d) : k.actor_id = c.actor_id /\ k.device_id = c.device_id

\* active_claim_matches: the live lease was claimed by this identity.
ActiveClaimMatches(d, id) ==
    LET claims == {i \in DOMAIN d.journal :
                      /\ d.journal[i].command.type = "Claim"
                      /\ d.journal[i].command.session_id = id.session_id}
    IN  /\ \E l \in Replay(d).active_lease :
              l.device_id = id.device_id /\ l.session_id = id.session_id
        /\ IF claims # {} THEN IdentityOf(d.journal[Max(claims)].command) = id
           ELSE \E k \in d.checkpoint : id \in k.last_claim

\* Mutant: the claimant is looked up among the folded entries only.
CompactForgetsClaim(d) ==
    LET count == Len(d.journal) - RetainRecent
        folded == SubSeq(d.journal, 1, count)
    IN  [checkpoint |-> {[state |-> Checkpoint(StateAfter(d, count)),
                          last_claim |-> LastClaimOf(folded, {})]},
         journal |-> SubSeq(d.journal, count + 1, Len(d.journal))]

\* Mutant: one entry too many is folded, and its receipt lost with it.
CompactOneMore(d) ==
    LET count == Len(d.journal) - RetainRecent + 1
        folded == SubSeq(d.journal, 1, count)
    IN  [checkpoint |-> {[state |-> Checkpoint(StateAfter(d, count)),
                          last_claim |-> LastClaimOf(folded, d.checkpoint)]},
         journal |-> SubSeq(d.journal, count + 1, Len(d.journal))]

\* compact_journal, before its verification.
Compact(d) ==
    LET count == Len(d.journal) - RetainRecent
        folded == SubSeq(d.journal, 1, count)
    IN  [checkpoint |-> {[state |-> Checkpoint(StateAfter(d, count)),
                          last_claim |-> LastClaimOf(folded, d.checkpoint)]},
         journal |-> SubSeq(d.journal, count + 1, Len(d.journal))]

\* The verification of compact_journal: the same checkpoint, not the same
\* receipts.  When it fails the command is refused and nothing is stored.
Verified(d) ==
    /\ Readable(Compact(d))
    /\ Checkpoint(Replay(Compact(d))) = Checkpoint(Replay(d))

Pushed(d, e) == [d EXCEPT !.journal = Append(d.journal, e)]

CompactionDue(d) == Len(d.journal) >= CompactAt

\* Mutant: only the recovery command is checked against the last claimant.
AdmittedPlainIssue(d, s, c) ==
    c.type = "RecoverAndIssueLaunchIntent" => LastClaimMatches(d, c)

\* The admission tests of StoredCoordinatorDocument::apply: recovery, and a
\* plain intent while a recovery is pending, belong to the last claimant.
Admitted(d, s, c) ==
    /\ c.type = "IssueLaunchIntent" /\ s.recovery_claim_pending
          => LastClaimMatches(d, c)
    /\ c.type = "RecoverAndIssueLaunchIntent" => LastClaimMatches(d, c)

\* StoredCoordinatorDocument::apply appends e to d, which replays to s.
Appends(d, s, e) ==
    /\ NewlyAccepted(s, e)
    /\ Admitted(d, s, e.command)
    /\ CompactionDue(Pushed(d, e)) => Verified(Pushed(d, e))

\* Mutant: the checkpoint is taken of the whole journal, the tail it already
\* counts is kept for replay as well.
AppendedUnverified(d, e) ==
    LET p == Pushed(d, e)
    IN  IF ~ CompactionDue(p) THEN p
        ELSE [Compact(p) EXCEPT !.checkpoint =
                {[state |-> Checkpoint(Replay(p)),
                  last_claim |-> LastClaimOf(p.journal, p.checkpoint)]}]

Appended(d, e) ==
    IF CompactionDue(Pushed(d, e)) THEN Compact(Pushed(d, e)) ELSE Pushed(d, e)

-----------------------------------------------------------------------------
(* The state machine.                                                      *)

Coord == Replay(doc)

WritersIn(s) ==
    {[session_id |-> l.session_id, epoch |-> l.epoch,
      fencing_token |-> l.fencing_token] : l \in s.active_lease}

DocumentInit ==
    /\ doc = NewDocument
    /\ ended = {}
    /\ claimant = {}
    /\ reserved = {}

\* The document handles one request of a client or of its own alarm.
ApplyEnvelope ==
    \E s \in {Coord}, key \in Keys, c \in CoordinatorCommand :
        LET e == NextEnvelope(s, key, c)
            next == Accept(s, e)
        IN  /\ Appends(doc, s, e)
            /\ doc' = Appended(doc, e)
            /\ ended' = ended \cup (WritersIn(s) \ WritersIn(next))
            /\ claimant' = IF c.type = "Claim" THEN {IdentityOf(c)} ELSE claimant
            /\ reserved' = IF next.status = "Uncertain" THEN claimant
                           ELSE IF c.type \in {"Claim", "MarkRecovered"} THEN {}
                           ELSE reserved

DocumentNext == ApplyEnvelope

DocumentSpec == DocumentInit /\ [][DocumentNext]_docVars

-----------------------------------------------------------------------------
(* Properties.                                                             *)

\* The stored document can always be read back: its checkpoint passes
\* restore_checkpoint and no journal entry is refused on replay, and a due
\* compaction is never refused by its own verification, whatever command comes
\* next.  A document that fails here locks the profile for good.
DocumentReadable ==
    /\ Readable(doc)
    /\ \A s \in {Coord}, key \in Keys, c \in CoordinatorCommand :
          LET e == NextEnvelope(s, key, c)
          IN  CompactionDue(Pushed(doc, e)) /\ NewlyAccepted(s, e)
                                            /\ Admitted(doc, s, c)
                  => Verified(Pushed(doc, e))

\* Journal and checkpoint name the last claimant between them, however often
\* the journal was compacted, and while there is a lease they prove its
\* provenance to that identity and to no other.
ClaimProvenance ==
    /\ LastClaim(doc) = claimant
    /\ Coord.active_lease # {} =>
          \A id \in ClaimIdentity : ActiveClaimMatches(doc, id) <=> id \in claimant

\* After a lease ended Uncertain, the next claim belongs to its claimant unless
\* the owner marked the profile recovered: an expired recovery intent does not
\* open a gap for another actor or device.
ClaimReserved ==
    (claimant' # claimant \/ Coord'.next_epoch # Coord.next_epoch) =>
        \A r \in reserved, k \in claimant' :
            r.actor_id = k.actor_id /\ r.device_id = k.device_id

UncertainReservedForClaimant == [][ClaimReserved]_docVars

\* Replaying the document gives the coordinator of Coordinator.tla, with its
\* receipts: compaction is invisible, a retry inside the window included.
Replayed == INSTANCE Coordinator WITH coord <- Coord, retired <- ended

DocumentImplementsCoordinator == Replayed!Spec
=============================================================================
