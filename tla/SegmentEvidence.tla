-------------------------- MODULE SegmentEvidence ---------------------------
(***************************************************************************)
(* What a session leaves behind for the promotion gate: the decisions of   *)
(* its windows with the outcomes their actions came to, the verification   *)
(* anchors, and, when a segment ends, the candidate that is submitted for  *)
(* it. Answers to challenges come from the API while windows are processed *)
(* and after the segment has ended.                                        *)
(***************************************************************************)
EXTENDS Naturals, FiniteSets

CONSTANTS MaxSegments,  \* bound: segments of the session
          MaxWindows,   \* bound: windows of a segment
          MinWindows    \* min_promotable_windows

ASSUME SegmentAssumption ==
    MaxSegments \in Nat /\ MaxWindows \in Nat /\ MinWindows \in Nat \ {0}

VARIABLES standing,  \* how the user is treated: see Standings
          drill,     \* the session is a declared attacker drill
          n,         \* the current segment; 0 before the first
          stage,     \* of the current segment: "none", "open", "closing",
                     \* "flushed", "closed"
          windows,   \* of each segment: [scored, all]
          levels,    \* of each segment: the risk levels of its decisions
          gap,       \* the segments in which sequence numbers are missing
          decisions, \* the decisions table; a row that nothing reads again is dropped
          prompts,   \* the segments of pending scheduled and recovery prompts
          anchors,   \* the segments of the anchors of this session; 0 for A1
          candidates, \* of each segment: the disposition of its candidate, or "NONE"
          truth      \* ghost, of each segment: what really happened in it

evidenceVars == <<standing, drill, n, stage, windows, levels, gap, decisions, prompts,
                  anchors, candidates, truth>>

Segment == 1 .. MaxSegments
Level == {"LOW", "MEDIUM", "HIGH", "UNAVAILABLE"}
\* ACTIVE and enforcing, ACTIVE in shadow mode, or CALIBRATING.
Standings == {"ENFORCED", "SHADOW", "CALIBRATING"}
Status == {"SUCCEEDED", "FAILED_OPEN", "CANCELLED", "SKIPPED"}

EvidenceInit ==
    /\ standing \in Standings /\ drill \in BOOLEAN
    /\ n = 0 /\ stage = "none"
    /\ windows = [s \in Segment |-> [scored |-> 0, all |-> 0]]
    /\ levels = [s \in Segment |-> {}]
    /\ gap = {} /\ decisions = {} /\ prompts = {}
    /\ anchors = IF drill THEN {} ELSE {0}
    /\ candidates = [s \in Segment |-> "NONE"]
    /\ truth = [s \in Segment |-> [proved |-> FALSE, enforced |-> FALSE, failed |-> FALSE]]

StartSegment ==
    /\ stage \in {"none", "closed"} /\ n < MaxSegments
    /\ n' = n + 1 /\ stage' = "open"
    /\ UNCHANGED <<standing, drill, windows, levels, gap, decisions, prompts, anchors,
                   candidates, truth>>

\* An event of the current segment finds numbers missing before it.
LoseEvents ==
    /\ stage = "open" /\ n \notin gap
    /\ gap' = gap \cup {n}
    /\ UNCHANGED <<standing, drill, n, stage, windows, levels, decisions, prompts,
                   anchors, candidates, truth>>

-----------------------------------------------------------------------------
\* What the policy requests of a level, or withholds by cooldown or budget.
Requested == [LOW |-> {"CONTINUE"}, MEDIUM |-> {"SOFT_CHALLENGE", "NONE"},
              HIGH |-> {"REAUTH", "TERMINATE", "NONE"}]
Applied(action) == standing = "ENFORCED" /\ action \notin {"CONTINUE", "NONE"}

\* EnforcementCoordinator.execute: what may come of a decision.
Executed(action) ==
    IF standing = "CALIBRATING" \/ (action # "CONTINUE" /\ ~Applied(action))
      THEN {"SKIPPED"}
    ELSE IF action = "CONTINUE" THEN {"SUCCEEDED"}
    ELSE {"SUCCEEDED", "FAILED_OPEN", "SKIPPED"}

\* record_action_outcome: the column enforcement_applied after an outcome.
Column(status) == status = "SUCCEEDED"

Noted(s, what, yes) == [truth EXCEPT ![s][what] = @ \/ yes]

Decide(action, status) ==
    LET asks == Applied(action) /\ action # "TERMINATE" /\ status # "FAILED_OPEN"
    IN /\ decisions' = decisions \cup {[seg |-> n, action |-> action,
                                        applied |-> Column(status), pending |-> asks]}
       /\ truth' = Noted(n, "enforced", Applied(action) /\ status = "SUCCEEDED")

\* A window of the current segment: scored and judged, or too thin, which leaves
\* the level as it is, or failed by the model. That of a closing builder is its last.
ProcessWindow ==
    /\ stage \in {"open", "closing"} /\ windows[n].all < MaxWindows
    /\ \E scored \in BOOLEAN, level \in Level :
         /\ scored => level # "UNAVAILABLE"
         /\ windows' = [windows EXCEPT ![n] =
                          [scored |-> @.scored + (IF scored THEN 1 ELSE 0), all |-> @.all + 1]]
         /\ levels' = [levels EXCEPT ![n] = @ \cup {level}]
         /\ \E action \in IF scored THEN Requested[level] ELSE {"NONE"} :
              \E status \in Executed(action) : Decide(action, status)
    /\ stage' = IF stage = "closing" THEN "flushed" ELSE stage
    /\ UNCHANGED <<standing, drill, n, gap, prompts, anchors, candidates>>

-----------------------------------------------------------------------------
\* respond_to_challenge and sweep_expired_challenges, for a decision's challenge:
\* a correct answer to a REAUTH is an A2 anchor of the decision's segment.
Answer ==
    \E d \in decisions, accepted \in BOOLEAN :
      /\ d.pending
      /\ decisions' = (decisions \ {d})
           \cup {[d EXCEPT !.pending = FALSE,
                           !.applied = Column(IF accepted THEN "SUCCEEDED" ELSE "CANCELLED")]}
      /\ anchors' = IF accepted /\ d.action = "REAUTH" THEN anchors \cup {d.seg} ELSE anchors
      /\ truth' = [truth EXCEPT ![d.seg] =
                     [proved |-> @.proved \/ (accepted /\ d.action = "REAUTH"),
                      enforced |-> @.enforced, failed |-> @.failed \/ ~accepted]]
      /\ UNCHANGED <<standing, drill, n, stage, windows, levels, gap, prompts, candidates>>

\* check_scheduled_anchor and open_reauthentication anchor the first open builder.
OpenPrompt ==
    /\ stage = "open" /\ n \notin prompts
    /\ prompts' = prompts \cup {n}
    /\ UNCHANGED <<standing, drill, n, stage, windows, levels, gap, decisions, anchors,
                   candidates, truth>>

\* A wrong or late answer consumes the prompt and leaves no anchor.
AnswerPrompt ==
    \E s \in prompts, accepted \in BOOLEAN :
      /\ prompts' = prompts \ {s}
      /\ anchors' = IF accepted THEN anchors \cup {s} ELSE anchors
      /\ truth' = Noted(s, "proved", accepted)
      /\ UNCHANGED <<standing, drill, n, stage, windows, levels, gap, decisions, candidates>>

-----------------------------------------------------------------------------
\* SEGMENT_ENDED: the builder is taken; what it still holds is a last window.
CloseSegment ==
    /\ stage = "open"
    /\ \/ stage' = "closing" /\ windows[n].all < MaxWindows
       \/ stage' = "flushed"
    /\ UNCHANGED <<standing, drill, n, windows, levels, gap, decisions, prompts, anchors,
                   candidates, truth>>

\* Mutant: the entry of the session anchors each of its segments.
Anchored_everywhere(s) == s \in anchors \/ 0 \in anchors
\* The entry of the session anchors its first segment only.
Anchored(s) == s \in anchors \/ (s = 1 /\ 0 \in anchors)
\* Mutant: only what is still unanswered counts.
Triggered_pending(s) == \E d \in decisions : d.seg = s /\ d.applied /\ d.pending
Triggered(s) == \E d \in decisions : d.seg = s /\ d.applied

G1(s) == ~Triggered(s) /\ levels[s] \subseteq {"LOW", "MEDIUM"}
G3(s) == windows[s].scored >= MinWindows
G4(s) == s \notin gap

\* submit_segment. Outside the first four gates it is rejected for ever.
SubmitSegment(s) ==
    candidates' = [candidates EXCEPT ![s] =
                IF G1(s) /\ Anchored(s) /\ G3(s) /\ G4(s) THEN "QUARANTINED" ELSE "REJECTED"]

\* end_segment and _submit_segment_candidate, which gives up on an error.
EndSegment ==
    /\ stage = "flushed"
    /\ stage' = "closed"
    /\ IF drill THEN UNCHANGED candidates
                ELSE SubmitSegment(n) \/ UNCHANGED candidates
    /\ decisions' = {d \in decisions : d.pending}
    /\ UNCHANGED <<standing, drill, n, windows, levels, gap, prompts, anchors, truth>>

EvidenceNext ==
    \/ StartSegment \/ LoseEvents \/ ProcessWindow \/ Answer \/ OpenPrompt \/ AnswerPrompt
    \/ CloseSegment \/ EndSegment

EvidenceSpec == EvidenceInit /\ [][EvidenceNext]_evidenceVars

-----------------------------------------------------------------------------
Admitted(s) == candidates[s] = "QUARANTINED"

\* What is admitted was proved by a person in that segment or at the login that
\* opened it, all of it was quiet, and none of it is missing: "A segment (ADR-007)
\* becomes eligible for promotion into training data only if" (PLAN.md 12.1).
AdmittedIsEarned ==
    \A s \in Segment : Admitted(s) =>
      /\ truth[s].proved \/ (s = 1 /\ ~drill)
      /\ levels[s] \subseteq {"LOW", "MEDIUM"} /\ windows[s].scored >= MinWindows
      /\ s \notin gap

\* G1, "no enforcement action was triggered" (PLAN.md 12.1), so far as it holds: what
\* reached the participant keeps its segment out, although answers rewrite
\* enforcement_applied before and after the segment ends, unless one was failed.
EnforcementKeepsOut ==
    \A s \in Segment : truth[s].enforced => truth[s].failed \/ ~Admitted(s)

\* Contradicted by the code.

\* PLAN.md 12.1, G1, of a segment in which a challenge was failed.
EnforcedNeverAdmitted ==
    \A s \in Segment : Admitted(s) => ~(truth[s].enforced /\ truth[s].failed)

\* PLAN.md 12.2: anchors are there so that uneventful sessions qualify.
UneventfulIsAdmitted ==
    [][\A s \in Segment :
         candidates[s] = "NONE" /\ candidates'[s] = "REJECTED"
           => ~(levels[s] = {"LOW"} /\ Anchored(s) /\ G3(s) /\ G4(s))]_evidenceVars
=============================================================================
