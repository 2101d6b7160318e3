---------------------------- MODULE HoldoutProofs ----------------------------
(***************************************************************************)
(* Theorems about Activation and Holdout, for every value of their         *)
(* constants: decisions, previews and validations of one source, in any    *)
(* order and number.  The inductive invariant has a part for the           *)
(* generations, one for the decisions, one for what pages showed, and one  *)
(* for the validations.                                                    *)
(***************************************************************************)
EXTENDS Holdout, TLAPS, SequenceTheorems, FiniteSetTheorems, WellFoundedInduction

----------------------------------------------------------------------------
\* The invariant.

\* What a preview or a report was made from is of an earlier configuration, or
\* of the present generation of the source.
Dated(r, of) == r.gen <= of.gen /\ (r.gen = of.gen => r.sgen = of.sgen)
GenerationsTell ==
    /\ \A n \in DOMAIN captures : Dated(captures[n], profile)
    /\ preview # None => Dated(preview, profile)

\* The active version was approved in the generation it was activated for, a
\* version that is rolled back to was approved in the generation of that.
WasApproved(v, sgen, log) ==
    \E d \in log : d.action = "approve" /\ d.version = v /\ d.sgen = sgen
DecisionsTell ==
    /\ profile.active # None => WasApproved(profile.active, profile.asgen, decisions)
    /\ \A d \in decisions : d.action = "rollback" => WasApproved(d.version, d.sgen, decisions)

\* A page that shows the present generation of activations shows the present
\* pointers, and is no older than the request that was sent from it.
PagesTell ==
    /\ form.agen = profile.agen =>
          form.active = profile.active /\ form.previous = profile.previous
    /\ request # None => request.agen <= form.agen

Selected == {l \in Learned : holdout[l].sequence > 0}

\* A validation begins with its candidate, was trained on what models were
\* shown, and is selected before it has a verdict.
HoldoutsTell ==
    \A l \in Learned :
        /\ l \notin submitted => holdout[l] = NoHoldout
        /\ holdout[l].state # "none" => holdout[l].train \in exposed
        /\ holdout[l].state \in Terminal \cup {"running"} => l \in Selected
        /\ holdout[l].sequence = 0 => ~holdout[l].sampled
        /\ holdout[l].sequence > 0 => holdout[l].state \in Terminal \cup {"running"}
        /\ holdout[l].sequence > 0 => holdout[l].capture \in DOMAIN captures

\* Selections are numbered in their order.
SelectionsTell ==
    /\ IsFiniteSet(Selected)
    /\ \A l \in Learned : holdout[l].sequence <= Cardinality(Selected)

IInv ==
    /\ HoldoutTypeOK
    /\ GenerationsTell
    /\ DecisionsTell
    /\ PagesTell
    /\ HoldoutsTell
    /\ SelectionsTell
    /\ PassedIsUnseen

----------------------------------------------------------------------------
\* Steps.

\* What a validation, a shown capture, a submission or a candidate that is frozen
\* does to the configuration.
Submits ==
    /\ submitted \subseteq submitted' /\ submitted' \subseteq Versions
    /\ profile' \in {profile, [profile EXCEPT !.exists = TRUE]}
    /\ UNCHANGED <<source, policies, evidenceVars, decisions, pageVars>>

\* Every step is one of these, as far as the configuration is concerned.
LEMMA ActivationSteps ==
    ASSUME HoldoutTypeOK, [HoldoutNext]_vars
    PROVE  \/ EditSource \/ (\E a \in {"grant", "revoke"} : SavePolicy(a)) \/ LoadForm
           \/ (\E v \in Versions : PreviewStart(v)) \/ (\E f \in Fetches : PreviewEnd(f))
           \/ PreviewFails \/ Age
           \/ (\E v \in Versions, n \in Nat : ApproveBegins(v, n)) \/ Approve \/ ApproveRefused
           \/ (\E v \in Versions : Reject(v)) \/ Rollback \/ Retire
           \/ Submits
<1>1. submitted \subseteq Versions /\ kept \subseteq Nat
  <2>1. submitted \subseteq Versions /\ kept \subseteq DOMAIN captures /\ captures \in Seq(Captures)
    BY DEF HoldoutTypeOK, TypeOK
  <2> QED
    BY <2>1, LenProperties
<1>2. ASSUME UNCHANGED activationVars PROVE Submits
  BY <1>1, <1>2 DEF Submits, activationVars, configVars, evidenceVars, pageVars
<1>3. CASE UNCHANGED vars
  BY <1>2, <1>3 DEF vars
<1>4. ASSUME ActivationNext PROVE
         \/ EditSource \/ (\E a \in {"grant", "revoke"} : SavePolicy(a)) \/ LoadForm
         \/ (\E v \in Versions : PreviewStart(v)) \/ (\E f \in Fetches : PreviewEnd(f))
         \/ PreviewFails \/ Age
         \/ (\E v \in Versions, n \in Nat : ApproveBegins(v, n)) \/ Approve \/ ApproveRefused
         \/ (\E v \in Versions : Reject(v)) \/ Rollback \/ Retire
         \/ Submits
  <2>1. CASE Configure
    BY <2>1 DEF Configure
  <2>2. CASE \E v \in Manual : Submit(v)
    <3>1. PICK v \in Manual : Submit(v)
      BY <2>2
    <3> QED
      BY <1>1, <3>1 DEF Submit, Submits, Versions
  <2>3. CASE Preview
    BY <2>3 DEF Preview
  <2>4. CASE \E n \in kept : captures[n].version \in Manual /\ Usable(n)
                             /\ ApproveBegins(captures[n].version, n)
    BY <1>1, <2>4 DEF Versions
  <2>5. CASE ApproveManual
    BY <2>5 DEF ApproveManual
  <2> QED
    BY <1>4, <2>1, <2>2, <2>3, <2>4, <2>5 DEF ActivationNext, Decide
<1>5. ASSUME NEW n \in DOMAIN captures, Show(n) PROVE Submits
  BY <1>2, <1>5 DEF Show
<1>6. ASSUME NEW n \in DOMAIN captures, NEW l \in Learned, Freeze(l, n) PROVE Submits
  BY <1>1, <1>6 DEF Freeze, Submits, Versions
<1>7. ASSUME NEW l \in Learned, Validation(l)
      PROVE  Submits \/ (\E v \in Versions, n \in Nat : ApproveBegins(v, n))
  <2>1. CASE ApproveLearnedBegins(l)
    BY <2>1 DEF ApproveLearnedBegins, Versions
  <2>2. CASE Evaluated(l)
    BY <1>2, <2>2 DEF Evaluated, Finish
  <2> QED
    BY <1>2, <1>7, <2>1, <2>2 DEF Validation, Select, WorkerDies, Late, Expire
<1>8. CASE ApproveLearned
  BY <1>8 DEF ApproveLearned
<1> QED
  BY <1>3, <1>4, <1>5, <1>6, <1>7, <1>8 DEF HoldoutNext

\* Reports are only added, and numbered in their order.
LEMMA CapturesGrow ==
    ASSUME HoldoutTypeOK, [HoldoutNext]_vars
    PROVE  /\ captures' \in Seq(Captures)
           /\ DOMAIN captures \subseteq DOMAIN captures'
           /\ \A n \in DOMAIN captures : captures'[n] = captures[n]
           /\ UNCHANGED captures \/ \E f \in Fetches : PreviewEnd(f)
<1>1. captures \in Seq(Captures) /\ preview \in Previews \cup {None}
  BY DEF HoldoutTypeOK, TypeOK
<1>2. CASE UNCHANGED captures
  BY <1>1, <1>2
<1>3. CASE \E f \in Fetches : PreviewEnd(f)
  <2>1. PICK f \in Fetches : PreviewEnd(f)
    BY <1>3
  <2> DEFINE c == [version |-> preview.version, gen |-> preview.gen, sgen |-> preview.sgen,
                   fp |-> preview.fp, policy |-> preview.policy, content |-> f.content,
                   status |-> IF preview.gen # profile.gen \/ preview.fp # source THEN "stale"
                              ELSE f.status]
  <2>2. captures' = Append(captures, c) /\ preview \in Previews
    BY <1>1, <2>1 DEF PreviewEnd
  <2>3. c \in Captures
    BY <2>2, ActivationConstants DEF Previews, Captures
  <2> QED
    BY <1>1, <1>3, <2>2, <2>3, AppendProperties
<1> QED
  BY <1>2, <1>3, ActivationSteps
  DEF EditSource, SavePolicy, LoadForm, PreviewStart, PreviewFails, Age, ApproveBegins, Approve,
      ApproveRefused, Reject, Rollback, Retire, Submits, configVars, evidenceVars, pageVars

----------------------------------------------------------------------------
\* Types.

LEMMA ActivationTyped ==
    ASSUME HoldoutTypeOK, [HoldoutNext]_vars
    PROVE  TypeOK'
<1>1. /\ source \in Sources
      /\ profile \in Profiles
      /\ policies \in Seq(Policies)
      /\ submitted \subseteq Versions
      /\ captures \in Seq(Captures)
      /\ kept \subseteq DOMAIN captures
      /\ fresh \subseteq DOMAIN captures
      /\ decisions \subseteq Decisions
      /\ preview \in Previews \cup {None}
      /\ request \in Requests \cup {None}
      /\ form \in Forms
  BY DEF HoldoutTypeOK, TypeOK
<1>2. captures' \in Seq(Captures) /\ DOMAIN captures \subseteq DOMAIN captures'
  BY CapturesGrow
<1>3. /\ profile.gen \in Nat /\ profile.agen \in Nat /\ profile.sgen \in Nat /\ Len(policies) \in Nat
      /\ profile.gen + 1 \in Nat /\ profile.agen + 1 \in Nat /\ profile.sgen + 1 \in Nat
      /\ DOMAIN profile = {"exists", "gen", "sgen", "pgen", "agen", "active", "previous", "asgen"}
  BY <1>1, LenProperties DEF Profiles
<1> USE DEF configVars, evidenceVars, pageVars
\* A form that was loaded stays one, as long as the generations grow.
<1>4. ASSUME form' = form, profile'.gen \in Nat, profile'.agen \in Nat, Len(policies') \in Nat,
             profile.gen <= profile'.gen, profile.agen <= profile'.agen,
             Len(policies) <= Len(policies')
      PROVE  form' \in Forms'
  BY <1>1, <1>3, <1>4, SMTT(60) DEF Forms
<1>5. CASE EditSource
  <2>1. source' \in Sources
    BY <1>1, <1>5 DEF EditSource, Sources
  <2>2. profile' \in Profiles /\ profile.gen <= profile'.gen /\ profile.agen <= profile'.agen
    <3>1. profile' = Bumped
      BY <1>5 DEF EditSource
    <3>2. CASE profile.exists
      <4>1. profile' = [profile EXCEPT !.gen = profile.gen + 1, !.sgen = profile.sgen + 1]
        BY <3>1, <3>2 DEF Bumped
      <4>2. profile' \in Profiles
        BY <1>1, <1>3, <4>1, Zenon DEF Profiles
      <4> QED
        BY <1>3, <4>1, <4>2
    <3> QED
      BY <1>1, <1>3, <3>1, <3>2 DEF Bumped
  <2>3. form' \in Forms'
    BY <1>3, <1>4, <1>5, <2>2 DEF EditSource, Profiles
  <2> QED
    BY <1>1, <1>5, <2>1, <2>2, <2>3 DEF EditSource, TypeOK
<1>6. ASSUME NEW a \in {"grant", "revoke"}, SavePolicy(a) PROVE TypeOK'
  <2>1. profile' \in Profiles /\ profile'.gen = profile.gen + 1 /\ profile'.agen = profile.agen
    <3>1. profile' = [profile EXCEPT !.exists = TRUE, !.gen = profile.gen + 1, !.pgen = profile.gen + 1]
      BY <1>6 DEF SavePolicy
    <3>2. profile' \in Profiles
      BY <1>1, <1>3, <3>1, Zenon DEF Profiles
    <3> QED
      BY <1>3, <3>1, <3>2
  <2>2. [gen |-> profile.gen + 1, action |-> a, sgen |-> profile.sgen, fp |-> source] \in Policies
    BY <1>1, <1>3 DEF Policies
  <2>3. policies' \in Seq(Policies) /\ Len(policies') = Len(policies) + 1
    BY <1>1, <1>6, <2>2, AppendProperties DEF SavePolicy
  <2>4. form' \in Forms'
    BY <1>3, <1>4, <1>6, <2>1, <2>3 DEF SavePolicy
  <2> QED
    BY <1>1, <1>6, <2>1, <2>3, <2>4 DEF SavePolicy, TypeOK
<1>7. CASE LoadForm
  <2>1. form' \in Forms'
    BY <1>1, <1>3, <1>7 DEF LoadForm, Form, Forms, Profiles
  <2> QED
    BY <1>1, <1>7, <2>1 DEF LoadForm, TypeOK
<1>8. ASSUME NEW v \in Versions, PreviewStart(v) PROVE TypeOK'
  <2>1. preview' \in Previews
    BY <1>1, <1>3, <1>8 DEF PreviewStart, Previews
  <2>2. form' \in Forms'
    BY <1>3, <1>4, <1>8 DEF PreviewStart
  <2> QED
    BY <1>1, <1>8, <2>1, <2>2 DEF PreviewStart, TypeOK
<1>9. ASSUME NEW f \in Fetches, PreviewEnd(f) PROVE TypeOK'
  <2>1. Len(captures) + 1 \in DOMAIN captures'
    BY <1>1, <1>9, AppendProperties, LenProperties DEF PreviewEnd
  <2>2. kept' \subseteq DOMAIN captures' /\ fresh' \subseteq DOMAIN captures'
    BY <1>1, <1>2, <1>9, <2>1 DEF PreviewEnd, Pruned
  <2>3. form' \in Forms'
    BY <1>3, <1>4, <1>9 DEF PreviewEnd
  <2> QED
    BY <1>1, <1>2, <1>9, <2>2, <2>3 DEF PreviewEnd, TypeOK
<1>10. CASE PreviewFails
  <2>1. form' \in Forms'
    BY <1>3, <1>4, <1>10 DEF PreviewFails
  <2> QED
    BY <1>1, <1>10, <2>1 DEF PreviewFails, TypeOK
<1>11. CASE Age
  <2>1. form' \in Forms'
    BY <1>3, <1>4, <1>11 DEF Age
  <2> QED
    BY <1>1, <1>11, <2>1 DEF Age, TypeOK
<1>12. ASSUME NEW v \in Versions, NEW n \in Nat, ApproveBegins(v, n) PROVE TypeOK'
  <2>1. request' \in Requests
    BY <1>1, <1>3, <1>12 DEF ApproveBegins, Requests, Forms
  <2>2. form' \in Forms'
    BY <1>3, <1>4, <1>12 DEF ApproveBegins
  <2> QED
    BY <1>1, <1>12, <2>1, <2>2 DEF ApproveBegins, TypeOK
\* A decision that moves the pointers.
<1>13. ASSUME NEW new \in Versions \cup {None}, NEW old \in Versions \cup {None}, NEW asgen \in Int,
              NEW action \in {"approve", "rollback", "retire"},
              Point(new, old, asgen), decisions' = Decided(action, new, profile.agen + 1),
              request' \in {request, None},
              UNCHANGED <<source, policies, submitted, evidenceVars, form>>
       PROVE  TypeOK'
  <2>1. profile' \in Profiles /\ profile'.gen = profile.gen /\ profile'.agen = profile.agen + 1
    <3>1. profile' = [profile EXCEPT !.active = new, !.previous = old, !.asgen = asgen,
                                     !.agen = profile.agen + 1]
      BY <1>13 DEF Point
    <3>2. profile' \in Profiles
      BY <1>1, <1>3, <3>1, Zenon DEF Profiles
    <3> QED
      BY <1>3, <3>1, <3>2
  <2>2. decisions' \subseteq Decisions
    BY <1>1, <1>3, <1>13 DEF Decided, Decisions
  <2>3. form' \in Forms'
    BY <1>3, <1>4, <1>13, <2>1
  <2> QED
    BY <1>1, <1>13, <2>1, <2>2, <2>3 DEF TypeOK
<1>14. profile.active \in Versions \cup {None} /\ profile.previous \in Versions \cup {None}
  BY <1>1 DEF Profiles
<1>15. CASE Approve
  <2>1. request.version \in Versions
    BY <1>1, <1>15 DEF Approve, Requests
  <2>2. /\ Point(request.version, profile.active, profile.sgen)
        /\ decisions' = Decided("approve", request.version, profile.agen + 1)
        /\ request' \in {request, None}
        /\ UNCHANGED <<source, policies, submitted, evidenceVars, form>>
    BY <1>15, Zenon DEF Approve
  <2>3. profile.sgen \in Int
    BY <1>3
  <2> QED
    BY <1>13, <1>14, <2>1, <2>2, <2>3, Zenon
<1>16. CASE ApproveRefused
  <2>1. form' \in Forms'
    BY <1>3, <1>4, <1>16 DEF ApproveRefused
  <2> QED
    BY <1>1, <1>16, <2>1 DEF ApproveRefused, TypeOK
<1>17. ASSUME NEW v \in Versions, Reject(v) PROVE TypeOK'
  <2>1. decisions' \subseteq Decisions
    BY <1>1, <1>17 DEF Reject, Decisions
  <2>2. form' \in Forms'
    BY <1>3, <1>4, <1>17 DEF Reject
  <2> QED
    BY <1>1, <1>17, <2>1, <2>2 DEF Reject, TypeOK
<1>18. CASE Rollback
  BY <1>3, <1>13, <1>14, <1>18 DEF Rollback
<1>19. CASE Retire
  BY <1>3, <1>13, <1>14, <1>19 DEF Retire
<1>20. CASE Submits
  <2>1. profile' \in Profiles /\ profile'.gen = profile.gen /\ profile'.agen = profile.agen
    BY <1>1, <1>20 DEF Submits, Profiles
  <2>2. form' \in Forms'
    BY <1>3, <1>4, <1>20, <2>1 DEF Submits
  <2> QED
    BY <1>1, <1>20, <2>1, <2>2 DEF Submits, TypeOK
<1> QED
  BY <1>5, <1>6, <1>7, <1>8, <1>9, <1>10, <1>11, <1>12, <1>15, <1>16, <1>17, <1>18, <1>19, <1>20,
     ActivationSteps

----------------------------------------------------------------------------
\* Generations, decisions and pages.

\* What was dated stays dated, whatever becomes of the profile.
LEMMA ProfileSteps ==
    ASSUME HoldoutTypeOK, [HoldoutNext]_vars
    PROVE  /\ profile.gen \in Nat /\ profile'.gen \in Nat
           /\ \/ profile'.gen = profile.gen /\ profile'.sgen = profile.sgen
              \/ profile'.gen > profile.gen
           /\ profile'.gen = profile.gen \/ UNCHANGED <<captures, preview>>
<1>1. profile \in Profiles /\ profile' \in Profiles
  BY ActivationTyped DEF HoldoutTypeOK, TypeOK
<1>2. /\ profile.gen \in Nat /\ profile'.gen \in Nat
      /\ DOMAIN profile = {"exists", "gen", "sgen", "pgen", "agen", "active", "previous", "asgen"}
  BY <1>1 DEF Profiles
<1> USE DEF configVars, evidenceVars, pageVars
<1>3. CASE EditSource
  <2>1. CASE profile.exists
    <3>1. profile' = [profile EXCEPT !.gen = profile.gen + 1, !.sgen = profile.sgen + 1]
      BY <1>3, <2>1 DEF EditSource, Bumped
    <3> QED
      BY <1>2, <1>3, <3>1 DEF EditSource
  <2> QED
    BY <1>2, <1>3, <2>1 DEF EditSource, Bumped
<1>4. ASSUME NEW a \in {"grant", "revoke"}, SavePolicy(a)
      PROVE  profile'.gen > profile.gen /\ UNCHANGED <<captures, preview>>
  BY <1>2, <1>4 DEF SavePolicy
<1>5. ASSUME NEW new, NEW old, NEW asgen, Point(new, old, asgen)
      PROVE  profile'.gen = profile.gen /\ profile'.sgen = profile.sgen
  BY <1>2, <1>5 DEF Point
<1>6. CASE Approve \/ Rollback \/ Retire
  BY <1>2, <1>5, <1>6 DEF Approve, Rollback, Retire
<1>7. CASE Submits
  BY <1>2, <1>7 DEF Submits
<1> QED
  BY <1>2, <1>3, <1>4, <1>6, <1>7, ActivationSteps
  DEF LoadForm, PreviewStart, PreviewEnd, PreviewFails, Age, ApproveBegins, ApproveRefused, Reject

LEMMA GenerationsKept ==
    ASSUME HoldoutTypeOK, GenerationsTell, [HoldoutNext]_vars
    PROVE  GenerationsTell'
<1>1. /\ captures \in Seq(Captures) /\ preview \in Previews \cup {None}
      /\ captures' \in Seq(Captures)
  BY CapturesGrow DEF HoldoutTypeOK, TypeOK
<1>2. /\ \A r \in Previews : r.gen \in Nat
      /\ \A n \in DOMAIN captures : captures[n].gen \in Nat
  <2>1. \A r \in Captures : r.gen \in Nat
    BY Zenon DEF Captures
  <2>2. \A r \in Previews : r.gen \in Nat
    BY Zenon DEF Previews
  <2>3. \A n \in DOMAIN captures : captures[n] \in Captures
    BY <1>1, ElementOfSeq
  <2> QED
    BY <2>1, <2>2, <2>3
<1>3. \A r : r.gen \in Nat /\ Dated(r, profile) => Dated(r, profile')
  BY ProfileSteps DEF Dated
<1>4. ASSUME UNCHANGED captures PROVE \A n \in DOMAIN captures' : Dated(captures'[n], profile')
  BY <1>2, <1>3, <1>4 DEF GenerationsTell
<1>5. ASSUME preview' \in {preview, None} PROVE preview' # None => Dated(preview', profile')
  BY <1>1, <1>2, <1>3, <1>5 DEF GenerationsTell, Dated
<1>6. ASSUME NEW f \in Fetches, PreviewEnd(f) PROVE GenerationsTell'
  <2> DEFINE n == Len(captures) + 1
  <2>1. preview \in Previews /\ preview' = None /\ UNCHANGED profile
    BY <1>1, <1>6 DEF PreviewEnd, configVars
  <2>2. /\ DOMAIN captures' = DOMAIN captures \cup {n}
        /\ \A m \in DOMAIN captures : captures'[m] = captures[m]
        /\ captures'[n].gen = preview.gen /\ captures'[n].sgen = preview.sgen
    BY <1>1, <1>6, AppendProperties, LenProperties DEF PreviewEnd
  <2>3. Dated(preview, profile)
    BY <1>1, <1>6 DEF GenerationsTell, PreviewEnd
  <2> QED
    BY <2>1, <2>2, <2>3 DEF GenerationsTell, Dated
<1>7. ASSUME NEW v \in Versions, PreviewStart(v) PROVE GenerationsTell'
  <2>1. preview'.gen = profile.gen /\ preview'.sgen = profile.sgen /\ UNCHANGED <<profile, captures>>
    BY <1>7 DEF PreviewStart, configVars
  <2>2. Dated(preview', profile')
    BY <2>1, ProfileSteps DEF Dated
  <2> QED
    BY <1>4, <2>1, <2>2 DEF GenerationsTell, Dated
<1>8. ASSUME UNCHANGED captures, preview' \in {preview, None} PROVE GenerationsTell'
  BY <1>4, <1>5, <1>8 DEF GenerationsTell, Dated
<1> QED
  BY <1>6, <1>7, <1>8, ActivationSteps
  DEF EditSource, SavePolicy, LoadForm, PreviewFails, Age, ApproveBegins, Approve,
      ApproveRefused, Reject, Rollback, Retire, Submits, configVars, evidenceVars, pageVars

LEMMA DecisionsKept ==
    ASSUME HoldoutTypeOK, DecisionsTell, [HoldoutNext]_vars
    PROVE  DecisionsTell'
<1>1. profile \in Profiles /\ decisions \subseteq Decisions /\ request \in Requests \cup {None}
  BY DEF HoldoutTypeOK, TypeOK
<1>2. DOMAIN profile = {"exists", "gen", "sgen", "pgen", "agen", "active", "previous", "asgen"}
  BY <1>1 DEF Profiles
<1> USE DEF configVars, evidenceVars, pageVars
\* Approvals are never taken back.
<1>3. ASSUME decisions \subseteq decisions', NEW v, NEW g, WasApproved(v, g, decisions)
      PROVE  WasApproved(v, g, decisions')
  BY <1>3 DEF WasApproved
<1>4. ASSUME UNCHANGED <<profile.active, profile.asgen>>, decisions \subseteq decisions',
             \A d \in decisions' \ decisions : d.action = "reject"
      PROVE  DecisionsTell'
  BY <1>3, <1>4 DEF DecisionsTell, WasApproved
<1>5. CASE Approve
  <2>1. profile' = [profile EXCEPT !.active = request.version, !.previous = profile.active,
                                   !.asgen = profile.sgen, !.agen = @ + 1]
    BY <1>5 DEF Approve, Point
  <2> DEFINE d == [action |-> "approve", version |-> request.version, sgen |-> profile.sgen,
                   agen |-> profile.agen + 1]
  <2>2. decisions' = decisions \cup {d}
    BY <1>5 DEF Approve, Decided
  <2>3. WasApproved(request.version, profile.sgen, decisions')
    <3>1. d \in decisions' /\ d.action = "approve" /\ d.version = request.version /\ d.sgen = profile.sgen
      BY <2>2
    <3> HIDE DEF d
    <3> QED
      BY <3>1 DEF WasApproved
  <2>4. profile'.active = request.version /\ profile'.asgen = profile.sgen
    BY <1>2, <2>1
  <2>5. WasApproved(profile'.active, profile'.asgen, decisions')
    BY <2>3, <2>4 DEF WasApproved
  <2>6. \A e \in decisions' : e.action = "rollback" => WasApproved(e.version, e.sgen, decisions')
    BY <1>3, <2>2 DEF DecisionsTell
  <2> QED
    BY <2>5, <2>6 DEF DecisionsTell, WasApproved
<1>6. CASE Rollback
  <2>1. profile' = [profile EXCEPT !.active = profile.previous, !.previous = profile.active,
                                   !.asgen = profile.sgen, !.agen = @ + 1]
    BY <1>6 DEF Rollback, Point
  <2>2. WasApproved(profile.previous, profile.sgen, decisions)
    <3>1. PICK d \in Activations(profile.previous) : d.sgen = profile.sgen
      BY <1>6 DEF Rollback, ApprovedHere
    <3>2. d \in decisions /\ d.version = profile.previous /\ d.action \in {"approve", "rollback"}
      BY <3>1 DEF Activations
    <3> QED
      BY <3>1, <3>2 DEF DecisionsTell, WasApproved
  <2> DEFINE r == [action |-> "rollback", version |-> profile.previous, sgen |-> profile.sgen,
                   agen |-> profile.agen + 1]
  <2>3. decisions' = decisions \cup {r}
    BY <1>6 DEF Rollback, Decided
  <2>4. profile'.active = profile.previous /\ profile'.asgen = profile.sgen
    BY <1>2, <2>1
  <2>5. WasApproved(profile'.active, profile'.asgen, decisions')
    BY <1>3, <2>2, <2>3, <2>4 DEF WasApproved
  <2>6. \A e \in decisions' : e.action = "rollback" => WasApproved(e.version, e.sgen, decisions')
    <3>1. r.version = profile.previous /\ r.sgen = profile.sgen
      OBVIOUS
    <3> HIDE DEF r
    <3>2. \A e \in decisions : e.action = "rollback" => WasApproved(e.version, e.sgen, decisions')
      BY <1>3, <2>3 DEF DecisionsTell
    <3>3. WasApproved(r.version, r.sgen, decisions')
      BY <1>3, <2>2, <2>3, <3>1
    <3> QED
      BY <2>3, <3>2, <3>3
  <2> QED
    BY <2>5, <2>6 DEF DecisionsTell, WasApproved
<1>7. CASE Retire
  <2>1. profile'.active = None
    BY <1>2, <1>7 DEF Retire, Point
  <2>2. decisions \subseteq decisions' /\ \A d \in decisions' \ decisions : d.action = "retire"
    BY <1>7 DEF Retire, Decided
  <2> QED
    BY <1>3, <2>1, <2>2 DEF DecisionsTell, WasApproved
<1>8. ASSUME NEW v \in Versions, Reject(v) PROVE DecisionsTell'
  BY <1>4, <1>8 DEF Reject
<1>9. CASE EditSource
  <2>1. UNCHANGED <<profile.active, profile.asgen>>
    BY <1>2, <1>9 DEF EditSource, Bumped
  <2> QED
    BY <1>4, <1>9, <2>1 DEF EditSource
<1>10. ASSUME NEW a \in {"grant", "revoke"}, SavePolicy(a) PROVE DecisionsTell'
  <2>1. UNCHANGED <<profile.active, profile.asgen>>
    BY <1>2, <1>10 DEF SavePolicy
  <2> QED
    BY <1>4, <1>10, <2>1 DEF SavePolicy
<1>11. CASE Submits
  <2>1. UNCHANGED <<profile.active, profile.asgen>>
    BY <1>2, <1>11 DEF Submits
  <2> QED
    BY <1>4, <1>11, <2>1 DEF Submits
<1>12. ASSUME UNCHANGED <<profile, decisions>> PROVE DecisionsTell'
  BY <1>4, <1>12
<1> QED
  BY <1>5, <1>6, <1>7, <1>8, <1>9, <1>10, <1>11, <1>12, ActivationSteps
  DEF LoadForm, PreviewStart, PreviewEnd, PreviewFails, Age, ApproveBegins, ApproveRefused

LEMMA PagesKept ==
    ASSUME HoldoutTypeOK, PagesTell, [HoldoutNext]_vars
    PROVE  PagesTell'
<1>1. profile \in Profiles /\ form \in Forms /\ request \in Requests \cup {None}
  BY DEF HoldoutTypeOK, TypeOK
<1>2. /\ profile.agen \in Nat
      /\ DOMAIN profile = {"exists", "gen", "sgen", "pgen", "agen", "active", "previous", "asgen"}
  BY <1>1 DEF Profiles
<1>3. form.agen \in Nat /\ form.agen <= profile.agen
  BY <1>1, <1>2 DEF Forms
<1> USE DEF configVars, evidenceVars, pageVars
<1>4. ASSUME UNCHANGED form, request' \in {request, None},
             UNCHANGED <<profile.agen, profile.active, profile.previous>>
      PROVE  PagesTell'
  BY <1>4 DEF PagesTell
\* The page is one generation behind from now on.
<1>5. ASSUME UNCHANGED form, request' \in {request, None}, profile'.agen = profile.agen + 1
      PROVE  PagesTell'
  BY <1>2, <1>3, <1>5 DEF PagesTell
<1>6. ASSUME NEW new, NEW old, NEW asgen, Point(new, old, asgen)
      PROVE  profile'.agen = profile.agen + 1
  BY <1>2, <1>6 DEF Point
<1>7. CASE Approve
  BY <1>5, <1>6, <1>7 DEF Approve
<1>8. CASE Rollback \/ Retire
  BY <1>5, <1>6, <1>8 DEF Rollback, Retire
<1>9. CASE LoadForm
  <2>1. /\ form'.agen = profile.agen /\ form'.active = profile.active
        /\ form'.previous = profile.previous /\ UNCHANGED <<profile, request>>
    BY <1>9 DEF LoadForm, Form
  <2>2. request # None => request.agen \in Nat
    BY <1>1 DEF Requests
  <2> QED
    BY <1>2, <1>3, <2>1, <2>2 DEF PagesTell
<1>10. ASSUME NEW v \in Versions, NEW n \in Nat, ApproveBegins(v, n) PROVE PagesTell'
  BY <1>3, <1>10 DEF ApproveBegins, PagesTell
<1>11. CASE EditSource
  <2>1. UNCHANGED <<profile.agen, profile.active, profile.previous>>
    BY <1>2, <1>11 DEF EditSource, Bumped
  <2> QED
    BY <1>4, <1>11, <2>1 DEF EditSource
<1>12. ASSUME NEW a \in {"grant", "revoke"}, SavePolicy(a) PROVE PagesTell'
  <2>1. UNCHANGED <<profile.agen, profile.active, profile.previous>>
    BY <1>2, <1>12 DEF SavePolicy
  <2> QED
    BY <1>4, <1>12, <2>1 DEF SavePolicy
<1>13. CASE Submits
  <2>1. UNCHANGED <<profile.agen, profile.active, profile.previous>>
    BY <1>2, <1>13 DEF Submits
  <2> QED
    BY <1>4, <1>13, <2>1 DEF Submits
<1>14. ASSUME UNCHANGED <<profile, form>>, request' \in {request, None} PROVE PagesTell'
  BY <1>4, <1>14
<1> QED
  BY <1>7, <1>8, <1>9, <1>10, <1>11, <1>12, <1>13, <1>14, ActivationSteps
  DEF PreviewStart, PreviewEnd, PreviewFails, Age, ApproveRefused, Reject

----------------------------------------------------------------------------
\* Validations.

\* Nothing happens to a validation.
Stays ==
    /\ holdout' = holdout /\ working' \subseteq working
    /\ exposed \subseteq exposed' /\ exposed' \subseteq exposed \cup DOMAIN captures
    /\ submitted' \cap Learned = submitted \cap Learned

\* The worker of l gives its verdict, or recovery does.
Verdict(l, result) ==
    /\ holdout[l].state = "running"
    /\ Save(l, result)
    /\ result = "passed" => ~Tainted(l, holdout[l].capture, holdout[l].sequence, TRUE)
    /\ working' \subseteq working
    /\ UNCHANGED <<activationVars, exposed>>

LEMMA HoldoutSteps ==
    ASSUME HoldoutTypeOK, [HoldoutNext]_vars
    PROVE  \/ Stays
           \/ \E l \in Learned :
                 \/ \E n \in DOMAIN captures : Freeze(l, n)
                 \/ Select(l)
                 \/ \E result \in Terminal : Verdict(l, result)
                 \/ Late(l)
<1> USE DEF configVars, evidenceVars, pageVars
<1>1. ASSUME ActivationNext, UNCHANGED holdoutVars PROVE Stays
  <2>1. submitted' \cap Learned = submitted \cap Learned
    BY <1>1, ActivationConstants
    DEF ActivationNext, Configure, EditSource, SavePolicy, LoadForm, Submit, Preview, PreviewStart,
        PreviewEnd, PreviewFails, Age, Decide, ApproveBegins, ApproveManual, Approve,
        ApproveRefused, Reject, Rollback, Retire
  <2> QED
    BY <1>1, <2>1 DEF holdoutVars, Stays
<1>2. CASE UNCHANGED vars
  BY <1>2 DEF vars, activationVars, holdoutVars, Stays
<1>3. ASSUME NEW n \in DOMAIN captures, Show(n) PROVE Stays
  BY <1>3 DEF Show, Stays, activationVars
<1>4. CASE ApproveLearned
  BY <1>4 DEF ApproveLearned, Approve, holdoutVars, Stays
<1>5. ASSUME NEW l \in Learned, Validation(l)
      PROVE  Stays \/ Select(l) \/ (\E result \in Terminal : Verdict(l, result)) \/ Late(l)
  <2>1. ASSUME NEW result \in Terminal, NEW roles \in BOOLEAN, Finish(l, result, roles),
               result = "passed" => roles
        PROVE  Stays \/ \E r \in Terminal : Verdict(l, r)
    <3>1. CASE holdout[l].state # "running"
      BY <2>1, <3>1 DEF Finish, Stays, activationVars
    <3>2. CASE holdout[l].state = "running" /\ Save(l, "inconclusive")
      <4>1. Verdict(l, "inconclusive")
        BY <2>1, <3>2 DEF Finish, Verdict
      <4> QED
        BY <4>1 DEF Terminal
    <3>3. CASE /\ holdout[l].state = "running" /\ Save(l, result)
               /\ ~Tainted(l, holdout[l].capture, holdout[l].sequence, roles)
      <4>1. result = "passed" => ~Tainted(l, holdout[l].capture, holdout[l].sequence, TRUE)
        BY <2>1, <3>3 DEF Tainted
      <4>2. Verdict(l, result)
        BY <2>1, <3>3, <4>1 DEF Finish, Verdict
      <4> QED
        BY <4>2
    <3> QED
      BY <2>1, <3>1, <3>2, <3>3 DEF Finish
  <2>2. CASE Evaluated(l)
    <3>1. CASE Finish(l, "inconclusive", FALSE)
      BY <2>1, <3>1 DEF Terminal
    <3>2. CASE \E result \in Terminal : Finish(l, result, TRUE)
      BY <2>1, <3>2
    <3> QED
      BY <2>2, <3>1, <3>2 DEF Evaluated
  <2>3. CASE WorkerDies(l)
    BY <2>3 DEF WorkerDies, Stays, activationVars
  <2>4. CASE Expire(l)
    <3>1. Verdict(l, "inconclusive")
      BY <2>4 DEF Expire, Verdict
    <3> QED
      BY <3>1 DEF Terminal
  <2>5. CASE ApproveLearnedBegins(l)
    BY <2>5 DEF ApproveLearnedBegins, ApproveBegins, holdoutVars, Stays
  <2> QED
    BY <1>5, <2>2, <2>3, <2>4, <2>5 DEF Validation
<1> QED
  BY <1>1, <1>2, <1>3, <1>4, <1>5 DEF HoldoutNext

LEMMA HoldoutFacts ==
    ASSUME HoldoutTypeOK
    PROVE  /\ holdout \in [Learned -> Holdouts]
           /\ DOMAIN captures \subseteq Nat /\ 0 \notin DOMAIN captures /\ Len(captures) \in Nat
           /\ exposed \subseteq DOMAIN captures
           /\ \A l \in Learned : /\ holdout[l].sequence \in Nat
                                 /\ holdout[l].sampled \in BOOLEAN
                                 /\ holdout[l].state \in States
<1>1. holdout \in [Learned -> Holdouts] /\ captures \in Seq(Captures) /\ exposed \subseteq DOMAIN captures
  BY DEF HoldoutTypeOK, TypeOK
<1>2. \A l \in Learned : holdout[l] \in Holdouts
  BY <1>1
<1>3. \A h \in Holdouts : h.sequence \in Nat /\ h.sampled \in BOOLEAN /\ h.state \in States
  BY DEF Holdouts
<1> QED
  BY <1>1, <1>2, <1>3, LenProperties

\* The selection of l is the next one, of a capture that is there.
LEMMA SelectionIsLater ==
    ASSUME HoldoutTypeOK, NEW l \in Learned, Later(l) # {}
    PROVE  First(l) \in DOMAIN captures
<1>1. Later(l) \subseteq Nat /\ Later(l) \subseteq DOMAIN captures
  BY HoldoutFacts DEF Later
<1>2. PICK n \in Later(l) : \A m \in Later(l) : ~(<<m, n>> \in OpToRel(<, Nat))
  BY <1>1, NatLessThanWellFounded, WFMin
<1>3. \A m \in Later(l) : n <= m
  <2>1. OpToRel(<, Nat) = {p \in Nat \X Nat : p[1] < p[2]}
    BY DEF OpToRel
  <2>2. \A m \in Nat, k \in Nat : m < k => <<m, k>> \in {p \in Nat \X Nat : p[1] < p[2]}
    OBVIOUS
  <2>3. \A m \in Later(l) : ~(m < n)
    BY <1>1, <1>2, <2>1, <2>2
  <2> QED
    BY <1>1, <2>3
<1>4. First(l) \in Later(l)
  BY <1>3 DEF First
<1> QED
  BY <1>1, <1>4

\* What a step that is not idle does to the row of l; other rows stay.
LEMMA RowsAfter ==
    ASSUME HoldoutTypeOK, HoldoutsTell, NEW l \in Learned
    PROVE  /\ \A n \in DOMAIN captures : Freeze(l, n) =>
                /\ holdout[l] = NoHoldout
                /\ holdout'[l] = [NoHoldout EXCEPT !.state = "awaiting_evidence", !.train = n,
                                                   !.cutoff = Len(captures)]
           /\ Select(l) =>
                /\ holdout[l].state = "awaiting_evidence" /\ l \notin Selected
                /\ holdout'[l].train = holdout[l].train
                /\ holdout'[l].capture \in DOMAIN captures
                /\ holdout'[l].sequence = NextSelection
                /\ holdout'[l].state \in {"running", "inconclusive"}
           /\ \A result \in Terminal : Verdict(l, result) =>
                /\ holdout[l].state = "running"
                /\ holdout'[l] = [holdout[l] EXCEPT !.state = result]
           /\ Late(l) =>
                /\ holdout[l].state = "running"
                /\ holdout'[l] = [holdout[l] EXCEPT !.late = TRUE]
<1>1. holdout \in [Learned -> Holdouts] /\ holdout[l] \in Holdouts
  BY HoldoutFacts
<1>2. ASSUME NEW n \in DOMAIN captures, Freeze(l, n)
      PROVE  /\ holdout[l] = NoHoldout
             /\ holdout'[l] = [NoHoldout EXCEPT !.state = "awaiting_evidence", !.train = n,
                                                !.cutoff = Len(captures)]
  BY <1>1, <1>2 DEF Freeze, HoldoutsTell
<1>3. ASSUME Select(l)
      PROVE  /\ holdout[l].state = "awaiting_evidence" /\ l \notin Selected
             /\ holdout'[l].train = holdout[l].train
             /\ holdout'[l].capture \in DOMAIN captures
             /\ holdout'[l].sequence = NextSelection
             /\ holdout'[l].state \in {"running", "inconclusive"}
  <2>1. First(l) \in DOMAIN captures
    BY <1>3, SelectionIsLater DEF Select
  <2>2. PICK b \in BOOLEAN, g \in {"running", "inconclusive"} :
          holdout' = [holdout EXCEPT ![l] = [@ EXCEPT !.capture = First(l), !.sequence = NextSelection,
                                                      !.sampled = b, !.state = g]]
    <3> DEFINE b == First(l) \in kept /\ Samples(l, First(l))
               g == IF b /\ ~Tainted(l, First(l), NextSelection, FALSE)
                    THEN "running" ELSE "inconclusive"
    <3>1. b \in BOOLEAN /\ g \in {"running", "inconclusive"}
      BY DEF Samples, Unchanged
    <3>2. holdout' = [holdout EXCEPT ![l] = [@ EXCEPT !.capture = First(l), !.sequence = NextSelection,
                                                      !.sampled = b, !.state = g]]
      BY <1>3 DEF Select
    <3> QED
      BY <3>1, <3>2
  <2>3. holdout'[l] = [holdout[l] EXCEPT !.capture = First(l), !.sequence = NextSelection,
                                         !.sampled = b, !.state = g]
    BY <1>1, <2>2
  <2>4. /\ holdout'[l].train = holdout[l].train /\ holdout'[l].capture = First(l)
        /\ holdout'[l].sequence = NextSelection /\ holdout'[l].state = g
    BY <1>1, <2>3 DEF Holdouts
  <2>5. holdout[l].state = "awaiting_evidence" /\ l \notin Selected
    BY <1>3 DEF Select, HoldoutsTell, Selected, Terminal
  <2> QED
    BY <2>1, <2>4, <2>5
<1>4. ASSUME NEW result \in Terminal, Verdict(l, result)
      PROVE  /\ holdout[l].state = "running"
             /\ holdout'[l] = [holdout[l] EXCEPT !.state = result]
  BY <1>1, <1>4 DEF Verdict, Save
<1>5. ASSUME Late(l)
      PROVE  /\ holdout[l].state = "running"
             /\ holdout'[l] = [holdout[l] EXCEPT !.late = TRUE]
  BY <1>1, <1>5 DEF Late
<1> QED
  BY <1>2, <1>3, <1>4, <1>5

LEMMA OtherRowsStay ==
    ASSUME HoldoutTypeOK, NEW l \in Learned,
           \/ \E n \in DOMAIN captures : Freeze(l, n)
           \/ Select(l)
           \/ \E result \in Terminal : Verdict(l, result)
           \/ Late(l)
    PROVE  \E r : holdout' = [holdout EXCEPT ![l] = r]
BY DEF Freeze, Select, Verdict, Save, Late

LEMMA HoldoutTyped ==
    ASSUME HoldoutTypeOK, HoldoutsTell, SelectionsTell, [HoldoutNext]_vars
    PROVE  HoldoutTypeOK'
<1>1. /\ holdout \in [Learned -> Holdouts] /\ working \subseteq Learned
      /\ exposed \subseteq DOMAIN captures
      /\ \A l \in Learned : {holdout[l].train, holdout[l].capture} \subseteq {0} \cup DOMAIN captures
  BY DEF HoldoutTypeOK
<1>2. TypeOK' /\ DOMAIN captures \subseteq DOMAIN captures' /\ DOMAIN captures \subseteq Nat
      /\ Len(captures) \in Nat
  BY ActivationTyped, CapturesGrow, HoldoutFacts
<1>3. NextSelection \in Nat
  BY FS_CardinalityType DEF NextSelection, SelectionsTell, Selected
<1>4. CASE Stays
  BY <1>1, <1>2, <1>4 DEF Stays, HoldoutTypeOK
<1>5. ASSUME NEW l \in Learned, NEW r, holdout' = [holdout EXCEPT ![l] = r], r \in Holdouts,
             {r.train, r.capture} \subseteq {0} \cup DOMAIN captures,
             working' \subseteq Learned, exposed' = exposed
      PROVE  HoldoutTypeOK'
  <2>1. holdout' \in [Learned -> Holdouts]
    BY <1>1, <1>5
  <2>2. \A m \in Learned : {holdout'[m].train, holdout'[m].capture} \subseteq {0} \cup DOMAIN captures
    <3> TAKE m \in Learned
    <3>1. CASE m = l
      BY <1>1, <1>5, <3>1
    <3>2. CASE m # l
      BY <1>1, <1>5, <3>2
    <3> QED
      BY <3>1, <3>2
  <2> QED
    BY <1>1, <1>2, <1>5, <2>1, <2>2 DEF HoldoutTypeOK
<1>6. ASSUME NEW l \in Learned, NEW n \in DOMAIN captures, Freeze(l, n) PROVE HoldoutTypeOK'
  <2> DEFINE r == [NoHoldout EXCEPT !.state = "awaiting_evidence", !.train = n, !.cutoff = Len(captures)]
  <2>1. r \in Holdouts /\ r.train = n /\ r.capture = 0
    BY <1>2 DEF NoHoldout, Holdouts, States
  <2> QED
    BY <1>1, <1>5, <1>6, <2>1 DEF Freeze
<1>7. ASSUME NEW l \in Learned, Select(l) PROVE HoldoutTypeOK'
  <2>1. First(l) \in DOMAIN captures
    BY <1>7, SelectionIsLater DEF Select
  <2> DEFINE b == First(l) \in kept /\ Samples(l, First(l))
             g == IF b /\ ~Tainted(l, First(l), NextSelection, FALSE) THEN "running" ELSE "inconclusive"
             r == [holdout[l] EXCEPT !.capture = First(l), !.sequence = NextSelection,
                                     !.sampled = b, !.state = g]
  <2>2. b \in BOOLEAN /\ g \in States
    BY DEF Samples, Unchanged, States, Terminal
  <2>3. /\ holdout' = [holdout EXCEPT ![l] = r]
        /\ working' \in {working, working \cup {l}} /\ exposed' = exposed
    BY <1>7 DEF Select
  <2>4. holdout[l] \in Holdouts /\ First(l) \in Nat
    BY <1>1, <1>2, <2>1
  <2> HIDE DEF b, g
  <2>5. r \in Holdouts /\ r.train = holdout[l].train /\ r.capture = First(l)
    BY <1>3, <2>2, <2>4 DEF Holdouts
  <2> HIDE DEF r
  <2> QED
    BY <1>1, <1>5, <2>1, <2>3, <2>5
<1>8. ASSUME NEW l \in Learned, NEW result \in Terminal, Verdict(l, result) PROVE HoldoutTypeOK'
  <2> DEFINE r == [holdout[l] EXCEPT !.state = result]
  <2>1. r \in Holdouts /\ r.train = holdout[l].train /\ r.capture = holdout[l].capture
    BY <1>1 DEF Holdouts, States
  <2> QED
    BY <1>1, <1>5, <1>8, <2>1 DEF Verdict, Save
<1>9. ASSUME NEW l \in Learned, Late(l) PROVE HoldoutTypeOK'
  <2> DEFINE r == [holdout[l] EXCEPT !.late = TRUE]
  <2>1. r \in Holdouts /\ r.train = holdout[l].train /\ r.capture = holdout[l].capture
    BY <1>1 DEF Holdouts
  <2> QED
    BY <1>1, <1>5, <1>9, <2>1 DEF Late
<1> QED
  BY <1>4, <1>6, <1>7, <1>8, <1>9, HoldoutSteps

\* What the submissions and the captures shown become in such a step.
LEMMA HoldoutStepKeeps ==
    ASSUME HoldoutTypeOK, NEW l \in Learned,
           \/ \E n \in DOMAIN captures : Freeze(l, n)
           \/ Select(l)
           \/ \E result \in Terminal : Verdict(l, result)
           \/ Late(l)
    PROVE  /\ exposed' = exposed /\ captures' = captures
           /\ submitted' \in {submitted, submitted \cup {l}}
           /\ (\E n \in DOMAIN captures : Freeze(l, n)) \/ submitted' = submitted
BY DEF Freeze, Select, Verdict, Late, activationVars, configVars, evidenceVars

LEMMA HoldoutsKept ==
    ASSUME HoldoutTypeOK, HoldoutsTell, SelectionsTell, [HoldoutNext]_vars
    PROVE  HoldoutsTell'
<1>1. /\ holdout \in [Learned -> Holdouts]
      /\ \A l \in Learned : holdout[l].sequence \in Nat
      /\ DOMAIN captures \subseteq DOMAIN captures'
  BY HoldoutFacts, CapturesGrow
\* What the invariant says of one row.
<1> DEFINE RowTells(r, there, shown, domain) ==
             /\ ~there => r = NoHoldout
             /\ r.state # "none" => r.train \in shown
             /\ r.state \in Terminal \cup {"running"} => r.sequence > 0
             /\ r.sequence = 0 => ~r.sampled
             /\ r.sequence > 0 => r.state \in Terminal \cup {"running"}
             /\ r.sequence > 0 => r.capture \in domain
<1>2. HoldoutsTell <=> \A l \in Learned : RowTells(holdout[l], l \in submitted, exposed, DOMAIN captures)
  BY DEF HoldoutsTell, Selected
<1>3. HoldoutsTell' <=> \A l \in Learned : RowTells(holdout'[l], l \in submitted', exposed', DOMAIN captures')
  BY DEF HoldoutsTell, Selected
<1>4. CASE Stays
  <2>1. \A l \in Learned : RowTells(holdout'[l], l \in submitted', exposed', DOMAIN captures')
    BY <1>1, <1>2, <1>4 DEF Stays
  <2> QED
    BY <1>3, <2>1
<1>5. ASSUME NEW l \in Learned, NEW r, holdout' = [holdout EXCEPT ![l] = r],
             exposed' = exposed, captures' = captures, submitted' \in {submitted, submitted \cup {l}},
             RowTells(holdout'[l], l \in submitted', exposed', DOMAIN captures')
      PROVE  HoldoutsTell'
  <2>1. \A m \in Learned \ {l} : holdout'[m] = holdout[m] /\ (m \in submitted' <=> m \in submitted)
    BY <1>1, <1>5
  <2>2. \A m \in Learned : RowTells(holdout'[m], m \in submitted', exposed', DOMAIN captures')
    BY <1>2, <1>5, <2>1
  <2> QED
    BY <1>3, <2>2
<1>6. ASSUME NEW l \in Learned, NEW n \in DOMAIN captures, Freeze(l, n) PROVE HoldoutsTell'
  <2>1. holdout'[l] = [NoHoldout EXCEPT !.state = "awaiting_evidence", !.train = n, !.cutoff = Len(captures)]
    BY <1>6, RowsAfter
  <2>2. n \in exposed /\ l \in submitted'
    BY <1>6 DEF Freeze
  <2>3. RowTells(holdout'[l], l \in submitted', exposed, DOMAIN captures)
    BY <2>1, <2>2 DEF NoHoldout, Terminal
  <2> QED
    BY <1>5, <1>6, <2>3, HoldoutStepKeeps, OtherRowsStay
<1>7. ASSUME NEW l \in Learned, Select(l) PROVE HoldoutsTell'
  <2>1. /\ holdout[l].state = "awaiting_evidence"
        /\ holdout'[l].train = holdout[l].train
        /\ holdout'[l].capture \in DOMAIN captures
        /\ holdout'[l].sequence = NextSelection
        /\ holdout'[l].state \in {"running", "inconclusive"}
    BY <1>7, RowsAfter
  <2>2. NextSelection \in Nat /\ NextSelection > 0
    BY FS_CardinalityType DEF NextSelection, Selected, SelectionsTell
  <2>3. l \in submitted /\ holdout[l].train \in exposed
    BY <1>2, <2>1 DEF NoHoldout
  <2>4. RowTells(holdout'[l], TRUE, exposed, DOMAIN captures)
    BY <2>1, <2>2, <2>3 DEF Terminal
  <2>5. l \in submitted' /\ exposed' = exposed /\ captures' = captures
    BY <1>7, <2>3, HoldoutStepKeeps
  <2> QED
    BY <1>5, <1>7, <2>3, <2>4, <2>5, HoldoutStepKeeps, OtherRowsStay
<1>8. ASSUME NEW l \in Learned, NEW result \in Terminal, Verdict(l, result) PROVE HoldoutsTell'
  <2>1. holdout[l].state = "running" /\ holdout'[l] = [holdout[l] EXCEPT !.state = result]
    BY <1>8, RowsAfter
  <2>2. /\ holdout'[l].state = result /\ holdout'[l].train = holdout[l].train
        /\ holdout'[l].sequence = holdout[l].sequence /\ holdout'[l].capture = holdout[l].capture
        /\ holdout'[l].sampled = holdout[l].sampled
    BY <1>1, <2>1 DEF Holdouts
  <2>3. l \in submitted /\ holdout[l].train \in exposed
    BY <1>2, <2>1 DEF NoHoldout
  <2>4. RowTells(holdout'[l], TRUE, exposed, DOMAIN captures)
    BY <1>1, <1>2, <2>1, <2>2, <2>3 DEF Terminal
  <2>5. l \in submitted' /\ exposed' = exposed /\ captures' = captures
    BY <1>8, <2>3, HoldoutStepKeeps
  <2> QED
    BY <1>5, <1>8, <2>4, <2>5, HoldoutStepKeeps, OtherRowsStay
<1>9. ASSUME NEW l \in Learned, Late(l) PROVE HoldoutsTell'
  <2>1. holdout[l].state = "running" /\ holdout'[l] = [holdout[l] EXCEPT !.late = TRUE]
    BY <1>9, RowsAfter
  <2>2. /\ holdout'[l].state = "running" /\ holdout'[l].train = holdout[l].train
        /\ holdout'[l].sequence = holdout[l].sequence /\ holdout'[l].capture = holdout[l].capture
        /\ holdout'[l].sampled = holdout[l].sampled
    BY <1>1, <2>1 DEF Holdouts
  <2>3. l \in submitted /\ holdout[l].train \in exposed
    BY <1>2, <2>1 DEF NoHoldout
  <2>4. RowTells(holdout'[l], TRUE, exposed, DOMAIN captures)
    BY <1>1, <1>2, <2>1, <2>2, <2>3
  <2>5. l \in submitted' /\ exposed' = exposed /\ captures' = captures
    BY <1>9, <2>3, HoldoutStepKeeps
  <2> QED
    BY <1>5, <1>9, <2>4, <2>5, HoldoutStepKeeps, OtherRowsStay
<1> QED
  BY <1>4, <1>6, <1>7, <1>8, <1>9, HoldoutSteps

\* Only a selection numbers a row, and with the next number.
LEMMA SelectionsKept ==
    ASSUME HoldoutTypeOK, HoldoutsTell, SelectionsTell, [HoldoutNext]_vars
    PROVE  SelectionsTell'
<1>1. /\ holdout \in [Learned -> Holdouts]
      /\ \A l \in Learned : holdout[l].sequence \in Nat
  BY HoldoutFacts
<1>2. IsFiniteSet(Selected) /\ Cardinality(Selected) \in Nat
  BY FS_CardinalityType DEF SelectionsTell
<1>3. ASSUME \A l \in Learned : holdout'[l].sequence = holdout[l].sequence
      PROVE  SelectionsTell'
  <2>1. Selected' = Selected
    BY <1>3 DEF Selected
  <2> QED
    BY <1>3, <2>1 DEF SelectionsTell
<1>4. CASE Stays
  BY <1>3, <1>4 DEF Stays
<1>5. ASSUME NEW l \in Learned, NEW r, holdout' = [holdout EXCEPT ![l] = r],
             holdout'[l].sequence = holdout[l].sequence
      PROVE  SelectionsTell'
  BY <1>1, <1>3, <1>5
<1>6. ASSUME NEW l \in Learned, NEW n \in DOMAIN captures, Freeze(l, n) PROVE SelectionsTell'
  <2>1. /\ holdout[l] = NoHoldout
        /\ holdout'[l] = [NoHoldout EXCEPT !.state = "awaiting_evidence", !.train = n, !.cutoff = Len(captures)]
    BY <1>6, RowsAfter
  <2>2. holdout'[l].sequence = holdout[l].sequence
    BY <2>1 DEF NoHoldout
  <2>3. PICK r : holdout' = [holdout EXCEPT ![l] = r]
    BY <1>6, OtherRowsStay
  <2> QED
    BY <1>5, <2>2, <2>3
<1>7. ASSUME NEW l \in Learned, Select(l) PROVE SelectionsTell'
  <2>1. l \notin Selected /\ holdout'[l].sequence = Cardinality(Selected) + 1
    BY <1>7, RowsAfter DEF NextSelection, Selected
  <2>2. \A m \in Learned \ {l} : holdout'[m] = holdout[m]
    BY <1>1, <1>7, OtherRowsStay
  <2>3. Selected' = Selected \cup {l}
    BY <1>2, <2>1, <2>2 DEF Selected
  <2>4. IsFiniteSet(Selected') /\ Cardinality(Selected') = Cardinality(Selected) + 1
    BY <1>2, <2>1, <2>3, FS_AddElement
  <2>5. \A m \in Learned : holdout'[m].sequence <= Cardinality(Selected')
    <3> TAKE m \in Learned
    <3>1. CASE m = l
      BY <1>2, <2>1, <2>4, <3>1
    <3>2. CASE m # l
      <4>1. holdout'[m].sequence = holdout[m].sequence /\ holdout[m].sequence <= Cardinality(Selected)
        BY <2>2, <3>2 DEF SelectionsTell
      <4> QED
        BY <1>1, <1>2, <2>4, <4>1
    <3> QED
      BY <3>1, <3>2
  <2> QED
    BY <2>4, <2>5 DEF SelectionsTell
<1>8. ASSUME NEW l \in Learned, NEW result \in Terminal, Verdict(l, result) PROVE SelectionsTell'
  <2>1. holdout'[l] = [holdout[l] EXCEPT !.state = result]
    BY <1>8, RowsAfter
  <2>2. holdout'[l].sequence = holdout[l].sequence
    BY <1>1, <2>1 DEF Holdouts
  <2> QED
    BY <1>5, <1>8, <2>2, OtherRowsStay
<1>9. ASSUME NEW l \in Learned, Late(l) PROVE SelectionsTell'
  <2>1. holdout'[l] = [holdout[l] EXCEPT !.late = TRUE]
    BY <1>9, RowsAfter
  <2>2. holdout'[l].sequence = holdout[l].sequence
    BY <1>1, <2>1 DEF Holdouts
  <2> QED
    BY <1>5, <1>9, <2>2, OtherRowsStay
<1> QED
  BY <1>4, <1>6, <1>7, <1>8, <1>9, HoldoutSteps

\* The selections of l's predecessors whose documents could be read.
Before(l) == {m \in Learned : holdout[m].sampled /\ holdout[m].sequence < holdout[l].sequence}

LEMMA UnseenApart ==
    PassedIsUnseen <=>
        \A l \in Learned : holdout[l].state = "passed" =>
            /\ Apart(holdout[l].capture, holdout[l].train)
            /\ \A m \in Before(l) : Apart(holdout[l].capture, holdout[m].capture)
BY DEF PassedIsUnseen, Apart, Before

\* What is not tainted is apart from all that was shown or selected before.
LEMMA UntaintedApart ==
    ASSUME NEW l \in Learned, NEW n, ~Tainted(l, n, holdout[l].sequence, TRUE)
    PROVE  /\ \A o \in exposed : Apart(n, o)
           /\ \A m \in Before(l) : Apart(n, holdout[m].capture)
<1> DEFINE seen == Seen(l, holdout[l].sequence)
<1>1. /\ \A o \in exposed : Docs(o) \subseteq seen
      /\ \A m \in Before(l) : Docs(holdout[m].capture) \subseteq seen
  BY DEF Seen, Before
<1>2. Texts(Docs(n)) \cap Texts(seen) = {} /\ Links(Details(n)) \cap Links(seen) = {}
  BY DEF Tainted
<1> HIDE DEF seen
<1>3. ASSUME NEW o, Docs(o) \subseteq seen PROVE Apart(n, o)
  <2>1. Texts(Docs(o)) \subseteq Texts(seen) /\ Links(Docs(o)) \subseteq Links(seen)
    BY <1>3 DEF Texts, Links
  <2> QED
    BY <1>2, <2>1 DEF Apart
<1> QED
  BY <1>1, <1>3

LEMMA PassedKept ==
    ASSUME HoldoutTypeOK, HoldoutsTell, SelectionsTell, PassedIsUnseen, [HoldoutNext]_vars
    PROVE  PassedIsUnseen'
<1>1. /\ holdout \in [Learned -> Holdouts]
      /\ \A l \in Learned : holdout[l].sequence \in Nat /\ holdout[l].sampled \in BOOLEAN
      /\ exposed \subseteq DOMAIN captures
  BY HoldoutFacts
<1>2. \A n \in DOMAIN captures, o \in DOMAIN captures : Apart(n, o) => Apart(n, o)'
  <2>1. \A n \in DOMAIN captures : captures'[n] = captures[n]
    BY CapturesGrow
  <2> QED
    BY <2>1 DEF Apart, Docs, Details, Texts, Links
\* A row that had passed, and those before it, are looked at again.
<1>3. ASSUME NEW l \in Learned, holdout[l].state = "passed",
             holdout'[l].capture = holdout[l].capture, holdout'[l].train = holdout[l].train,
             Before(l)' \subseteq Before(l),
             \A m \in Before(l) : holdout'[m].capture = holdout[m].capture
      PROVE  /\ Apart(holdout[l].capture, holdout[l].train)'
             /\ \A m \in Before(l)' : Apart(holdout[l].capture, holdout[m].capture)'
  <2>1. /\ Apart(holdout[l].capture, holdout[l].train)
        /\ \A m \in Before(l) : Apart(holdout[l].capture, holdout[m].capture)
    BY <1>3, UnseenApart
  <2>2. holdout[l].capture \in DOMAIN captures /\ holdout[l].train \in DOMAIN captures
    BY <1>1, <1>3 DEF HoldoutsTell, Terminal, Selected
  <2>3. \A m \in Before(l) : holdout[m].capture \in DOMAIN captures
    <3> TAKE m \in Before(l)
    <3>1. m \in Learned /\ holdout[m].sequence # 0
      BY DEF Before, HoldoutsTell
    <3> QED
      BY <1>1, <3>1 DEF HoldoutsTell
  <2>4. Apart(holdout[l].capture, holdout[l].train)'
    BY <1>2, <1>3, <2>1, <2>2 DEF Apart
  <2>5. ASSUME NEW m \in Before(l)' PROVE Apart(holdout[l].capture, holdout[m].capture)'
    <3>1. m \in Before(l)
      BY <1>3, <2>5
    <3>2. holdout'[m].capture = holdout[m].capture
      BY <1>3, <3>1
    <3> QED
      BY <1>2, <1>3, <2>1, <2>2, <2>3, <3>1, <3>2 DEF Apart
  <2> QED
    BY <2>4, <2>5
\* It is enough to look at those that have passed now.
<1>4. SUFFICES ASSUME NEW l \in Learned, holdout'[l].state = "passed"
               PROVE  /\ Apart(holdout[l].capture, holdout[l].train)'
                      /\ \A m \in Before(l)' : Apart(holdout[l].capture, holdout[m].capture)'
  <2>1. PassedIsUnseen' <=>
        \A k \in Learned : holdout'[k].state = "passed" =>
            /\ Apart(holdout[k].capture, holdout[k].train)'
            /\ \A m \in Before(k)' : Apart(holdout[k].capture, holdout[m].capture)'
    BY DEF PassedIsUnseen, Apart, Before, Docs, Details
  <2> QED
    BY <2>1
\* A row that is written but in its selection's number and sample.
<1>5. ASSUME \A k \in Learned : /\ holdout'[k].sequence = holdout[k].sequence
                                /\ holdout'[k].sampled = holdout[k].sampled
                                /\ holdout'[k].capture = holdout[k].capture,
             holdout'[l].train = holdout[l].train, holdout[l].state = "passed"
      PROVE  /\ Apart(holdout[l].capture, holdout[l].train)'
             /\ \A m \in Before(l)' : Apart(holdout[l].capture, holdout[m].capture)'
  <2>1. Before(l)' \subseteq Before(l)
    BY <1>5 DEF Before
  <2>2. \A m \in Before(l) : holdout'[m].capture = holdout[m].capture
    BY <1>5 DEF Before
  <2> QED
    BY <1>3, <1>5, <2>1, <2>2
<1>6. CASE Stays
  BY <1>4, <1>5, <1>6 DEF Stays
<1>7. ASSUME NEW k \in Learned, NEW r, holdout' = [holdout EXCEPT ![k] = r]
      PROVE  \A m \in Learned \ {k} : holdout'[m] = holdout[m]
  BY <1>1, <1>7
<1>8. ASSUME NEW k \in Learned, NEW n \in DOMAIN captures, Freeze(k, n)
      PROVE  /\ Apart(holdout[l].capture, holdout[l].train)'
             /\ \A m \in Before(l)' : Apart(holdout[l].capture, holdout[m].capture)'
  <2>1. /\ holdout[k] = NoHoldout
        /\ holdout'[k] = [NoHoldout EXCEPT !.state = "awaiting_evidence", !.train = n, !.cutoff = Len(captures)]
    BY <1>8, RowsAfter
  <2>2. l # k /\ ~holdout[k].sampled /\ ~holdout'[k].sampled
    BY <1>4, <2>1 DEF NoHoldout
  <2>3. \A m \in Learned \ {k} : holdout'[m] = holdout[m]
    BY <1>7, <1>8, OtherRowsStay
  <2>4. Before(l)' \subseteq Before(l) /\ \A m \in Before(l) : m # k
    BY <2>2, <2>3 DEF Before
  <2>5. \A m \in Before(l) : holdout'[m].capture = holdout[m].capture
    BY <2>3, <2>4 DEF Before
  <2> QED
    BY <1>3, <1>4, <2>2, <2>3, <2>4, <2>5
<1>9. ASSUME NEW k \in Learned, Select(k)
      PROVE  /\ Apart(holdout[l].capture, holdout[l].train)'
             /\ \A m \in Before(l)' : Apart(holdout[l].capture, holdout[m].capture)'
  <2>1. /\ k \notin Selected /\ holdout'[k].sequence = NextSelection
        /\ holdout'[k].state \in {"running", "inconclusive"}
    BY <1>9, RowsAfter
  <2>2. \A m \in Learned \ {k} : holdout'[m] = holdout[m]
    BY <1>7, <1>9, OtherRowsStay
  <2>3. l # k
    BY <1>4, <2>1
  <2>4. holdout'[l].sequence <= Cardinality(Selected) /\ Cardinality(Selected) \in Nat
    BY <2>2, <2>3, FS_CardinalityType DEF SelectionsTell
  <2>5. NextSelection = Cardinality(Selected) + 1
    BY DEF NextSelection, Selected
  <2>6. ~(holdout'[k].sequence < holdout'[l].sequence)
    BY <1>1, <2>1, <2>2, <2>3, <2>4, <2>5
  <2>7. ~holdout[k].sampled
    BY <1>1, <2>1 DEF Selected, HoldoutsTell
  <2>8. Before(l)' \subseteq Before(l) /\ \A m \in Before(l) : m # k
    BY <2>2, <2>3, <2>6, <2>7 DEF Before
  <2>9. \A m \in Before(l) : holdout'[m].capture = holdout[m].capture
    BY <2>2, <2>8 DEF Before
  <2> QED
    BY <1>3, <1>4, <2>2, <2>3, <2>8, <2>9
<1>10. ASSUME NEW k \in Learned, NEW result \in Terminal, Verdict(k, result)
       PROVE  /\ Apart(holdout[l].capture, holdout[l].train)'
              /\ \A m \in Before(l)' : Apart(holdout[l].capture, holdout[m].capture)'
  <2>1. holdout[k].state = "running" /\ holdout'[k] = [holdout[k] EXCEPT !.state = result]
    BY <1>10, RowsAfter
  <2>2. \A m \in Learned \ {k} : holdout'[m] = holdout[m]
    BY <1>7, <1>10, OtherRowsStay
  <2>3. /\ holdout'[k].state = result
        /\ holdout'[k].sequence = holdout[k].sequence /\ holdout'[k].sampled = holdout[k].sampled
        /\ holdout'[k].capture = holdout[k].capture /\ holdout'[k].train = holdout[k].train
    BY <1>1, <2>1 DEF Holdouts
  <2>4. \A m \in Learned : /\ holdout'[m].sequence = holdout[m].sequence
                           /\ holdout'[m].sampled = holdout[m].sampled
                           /\ holdout'[m].capture = holdout[m].capture
                           /\ holdout'[m].train = holdout[m].train
    BY <2>2, <2>3
  <2>5. CASE l # k
    BY <1>4, <1>5, <2>2, <2>4, <2>5
  <2>6. CASE l = k
    <3>1. ~Tainted(l, holdout[l].capture, holdout[l].sequence, TRUE)
      BY <1>4, <1>10, <2>3, <2>6 DEF Verdict
    <3>2. /\ \A o \in exposed : Apart(holdout[l].capture, o)
          /\ \A m \in Before(l) : Apart(holdout[l].capture, holdout[m].capture)
      BY <3>1, UntaintedApart
    <3>3. holdout[l].train \in exposed
      BY <2>1, <2>6 DEF HoldoutsTell
    <3>4. captures' = captures
      BY <1>10, HoldoutStepKeeps
    <3>5. Before(l)' = Before(l)
      BY <2>4 DEF Before
    <3>6. Before(l) \subseteq Learned
      BY DEF Before
    <3>7. \A n, o : Apart(n, o) => Apart(n, o)'
      BY <3>4 DEF Apart, Docs, Details, Texts, Links
    <3>8. Apart(holdout[l].capture, holdout[l].train)'
      <4>1. holdout'[l].capture = holdout[l].capture /\ holdout'[l].train = holdout[l].train
        BY <2>4
      <4> QED
        BY <3>2, <3>3, <3>7, <4>1 DEF Apart
    <3>9. ASSUME NEW m \in Before(l) PROVE Apart(holdout[l].capture, holdout[m].capture)'
      <4>1. holdout'[l].capture = holdout[l].capture /\ holdout'[m].capture = holdout[m].capture
        BY <2>4, <3>6
      <4> QED
        BY <3>2, <3>7, <4>1 DEF Apart
    <3> QED
      BY <3>5, <3>8, <3>9
  <2> QED
    BY <2>5, <2>6
<1>11. ASSUME NEW k \in Learned, Late(k)
       PROVE  /\ Apart(holdout[l].capture, holdout[l].train)'
              /\ \A m \in Before(l)' : Apart(holdout[l].capture, holdout[m].capture)'
  <2>1. holdout[k].state = "running" /\ holdout'[k] = [holdout[k] EXCEPT !.late = TRUE]
    BY <1>11, RowsAfter
  <2>2. \A m \in Learned \ {k} : holdout'[m] = holdout[m]
    BY <1>7, <1>11, OtherRowsStay
  <2>3. /\ holdout'[k].state = "running"
        /\ holdout'[k].sequence = holdout[k].sequence /\ holdout'[k].sampled = holdout[k].sampled
        /\ holdout'[k].capture = holdout[k].capture
    BY <1>1, <2>1 DEF Holdouts
  <2>4. l # k
    BY <1>4, <2>3
  <2> QED
    BY <1>4, <1>5, <2>2, <2>3, <2>4
<1> QED
  BY <1>6, <1>8, <1>9, <1>10, <1>11, HoldoutSteps

----------------------------------------------------------------------------
\* Every step keeps the invariant.

LEMMA InitHolds == HoldoutInit => IInv
<1> SUFFICES ASSUME HoldoutInit PROVE IInv
  OBVIOUS
<1> USE DEF HoldoutInit, Init
<1>1. source \in Sources /\ profile \in Profiles /\ policies \in Seq(Policies)
  <2>1. (CHOOSE u \in Urls : TRUE) \in Urls
    BY ActivationConstants
  <2> QED
    BY <2>1 DEF Sources, Profiles, NoProfile
<1>2. captures = <<>> /\ DOMAIN captures = {} /\ captures \in Seq(Captures)
  OBVIOUS
<1>3. form \in Forms
  BY <1>1 DEF Form, Forms, NoProfile
<1>4. TypeOK
  BY <1>1, <1>2, <1>3 DEF TypeOK
<1>5. \A l \in Learned : holdout[l] = NoHoldout
  OBVIOUS
<1>6. NoHoldout \in Holdouts
  BY DEF NoHoldout, Holdouts, States
<1>7. HoldoutTypeOK
  BY <1>2, <1>4, <1>5, <1>6 DEF HoldoutTypeOK, NoHoldout
<1>8. GenerationsTell /\ DecisionsTell /\ PagesTell
  BY <1>2 DEF GenerationsTell, DecisionsTell, PagesTell, NoProfile, Form
<1>9. HoldoutsTell /\ PassedIsUnseen
  BY <1>5 DEF HoldoutsTell, PassedIsUnseen, NoHoldout, Terminal, Selected
<1>10. SelectionsTell
  <2>1. Selected = {}
    BY <1>5 DEF Selected, NoHoldout
  <2> QED
    BY <1>5, <2>1, FS_EmptySet DEF SelectionsTell, NoHoldout
<1> QED
  BY <1>7, <1>8, <1>9, <1>10 DEF IInv

LEMMA StepKeeps == IInv /\ [HoldoutNext]_vars => IInv'
BY HoldoutTyped, GenerationsKept, DecisionsKept, PagesKept, HoldoutsKept, SelectionsKept, PassedKept
   DEF IInv

----------------------------------------------------------------------------
(* Theorems. *)

\* What the decisions, previews and validations of a source keep, taken together:
\* the parts above are kept by every step only with each other.
THEOREM Invariant == HoldoutSpec => []IInv
BY InitHolds, StepKeeps, PTL DEF HoldoutSpec

\* A source's configuration, its reports, the pages on it and its validations
\* have their types: what is cited or shown exists.
THEOREM TypeCorrect == HoldoutSpec => []HoldoutTypeOK
<1>1. IInv => HoldoutTypeOK
  BY DEF IInv
<1> QED
  BY <1>1, Invariant, PTL

\* A run is given a recipe only when it was approved for the source as it is and
\* a permission is in force (activation.route).
THEOREM RoutedApproved == HoldoutSpec => []RoutedWasApprovedHere
<1>1. IInv => RoutedWasApprovedHere
  <2> SUFFICES ASSUME IInv, RouteOf = "schema" PROVE RoutedWasApprovedHere
    BY DEF RoutedWasApprovedHere
  <2>1. profile.active # None /\ profile.asgen = profile.sgen /\ PolicyState = "effective"
    BY DEF RouteOf
  <2>2. WasApproved(profile.active, profile.sgen, decisions)
    BY <2>1 DEF IInv, DecisionsTell
  <2>3. source.active /\ policies[Len(policies)].fp = source
    BY <2>1 DEF PolicyState
  <2> QED
    BY <2>2, <2>3 DEF RoutedWasApprovedHere, WasApproved
<1> QED
  BY <1>1, Invariant, PTL

\* A report that an approval may cite was fetched after the last change of the
\* source (activation.report_is_current).
THEOREM UsableUntouched == HoldoutSpec => []UsableIsUntouched
<1>1. IInv => UsableIsUntouched
  <2> SUFFICES ASSUME IInv, NEW n \in kept, Usable(n) PROVE captures[n].sgen = profile.sgen
    BY DEF UsableIsUntouched
  <2>1. n \in DOMAIN captures /\ captures[n].gen = profile.gen
    BY DEF IInv, HoldoutTypeOK, TypeOK, Usable, ReportIsCurrent
  <2> QED
    BY <2>1 DEF IInv, GenerationsTell, Dated
<1> QED
  BY <1>1, Invariant, PTL

\* A candidate passes only on what its training and earlier verdicts did not show,
\* however validations and sessions overlap (validation._tainted).
THEOREM PassedUnseen == HoldoutSpec => []PassedIsUnseen
<1>1. IInv => PassedIsUnseen
  BY DEF IInv
<1> QED
  BY <1>1, Invariant, PTL

\* The pointers of a source move only under a page that shows them as they are.
LEMMA PointersShown ==
    ASSUME HoldoutTypeOK, PagesTell, [HoldoutNext]_vars,
           <<profile.active, profile.previous>>' # <<profile.active, profile.previous>>
    PROVE  <<form.active, form.previous>> = <<profile.active, profile.previous>>
<1>1. /\ profile \in Profiles /\ form \in Forms
      /\ form.agen \in 0 .. profile.agen /\ profile.agen \in Nat
      /\ request # None => request \in Requests
  BY DEF HoldoutTypeOK, TypeOK, Profiles, Forms
<1>2. SUFFICES form.agen = profile.agen
  BY <1>2 DEF PagesTell
<1>3. CASE EditSource
  BY <1>1, <1>3 DEF EditSource, Bumped, Profiles
<1>4. ASSUME NEW a, SavePolicy(a) PROVE form.agen = profile.agen
  BY <1>1, <1>4 DEF SavePolicy, Profiles
<1>5. CASE Submits
  BY <1>1, <1>5 DEF Submits, Profiles
<1>6. CASE Approve
  <2>1. request # None /\ request.agen = profile.agen
    BY <1>6 DEF Approve, Locked
  <2>2. request.agen <= form.agen
    BY <2>1 DEF PagesTell
  <2> QED
    BY <1>1, <2>1, <2>2
<1>7. CASE Rollback \/ Retire
  BY <1>7 DEF Rollback, Retire, Locked
<1>8. ~UNCHANGED profile
  OBVIOUS
<1>9. \/ LoadForm \/ (\E v \in Versions : PreviewStart(v)) \/ (\E f \in Fetches : PreviewEnd(f))
      \/ PreviewFails \/ Age
      \/ (\E v \in Versions, n \in Nat : ApproveBegins(v, n)) \/ ApproveRefused
      \/ (\E v \in Versions : Reject(v))
      => UNCHANGED profile
  BY DEF LoadForm, PreviewStart, PreviewEnd, PreviewFails, Age, ApproveBegins, ApproveRefused, Reject,
         configVars
<1> QED
  BY <1>3, <1>4, <1>5, <1>6, <1>7, <1>8, <1>9, ActivationSteps

\* Of two decisions taken on the same page one is refused (activation._locked).
THEOREM DecidedAsShown == HoldoutSpec => DecidedOnWhatWasShown
<1>1. IInv /\ [HoldoutNext]_vars =>
         [ <<profile.active, profile.previous>>' # <<profile.active, profile.previous>> =>
             <<form.active, form.previous>> = <<profile.active, profile.previous>> ]_activationVars
  BY PointersShown DEF IInv
<1> QED
  BY <1>1, Invariant, PTL DEF HoldoutSpec, DecidedOnWhatWasShown

\* A step that lets l pass finds it apart from all that models were shown.
LEMMA PassingIsUnseen ==
    ASSUME HoldoutTypeOK, HoldoutsTell, [HoldoutNext]_vars,
           NEW l \in Learned, holdout[l].state # "passed", holdout'[l].state = "passed"
    PROVE  \A o \in exposed : Apart(holdout[l].capture, o)
<1>1. holdout \in [Learned -> Holdouts] /\ holdout[l] \in Holdouts
  BY HoldoutFacts
<1>2. ~Stays
  BY DEF Stays
<1>3. PICK k \in Learned : \/ \E n \in DOMAIN captures : Freeze(k, n)
                           \/ Select(k)
                           \/ \E result \in Terminal : Verdict(k, result)
                           \/ Late(k)
  BY <1>2, HoldoutSteps
<1>4. k = l
  <2>1. PICK r : holdout' = [holdout EXCEPT ![k] = r]
    BY <1>3, OtherRowsStay
  <2> QED
    BY <1>1, <2>1
<1>5. PICK result \in Terminal : Verdict(l, result)
  <2>1. ~(\E n \in DOMAIN captures : Freeze(l, n))
    <3>1. \A n \in DOMAIN captures : Freeze(l, n) => holdout'[l].state = "awaiting_evidence"
      BY RowsAfter DEF NoHoldout
    <3> QED
      BY <3>1
  <2>2. ~Select(l)
    BY RowsAfter
  <2>3. ~Late(l)
    <3>1. Late(l) => holdout[l].state = "running" /\ holdout'[l] = [holdout[l] EXCEPT !.late = TRUE]
      BY RowsAfter
    <3> QED
      BY <1>1, <3>1 DEF Holdouts
  <2> QED
    BY <1>3, <1>4, <2>1, <2>2, <2>3
<1>6. result = "passed"
  <2>1. holdout'[l] = [holdout[l] EXCEPT !.state = result]
    BY <1>5, RowsAfter
  <2> QED
    BY <1>1, <2>1 DEF Holdouts
<1>7. ~Tainted(l, holdout[l].capture, holdout[l].sequence, TRUE)
  BY <1>5, <1>6 DEF Verdict
<1> QED
  BY <1>7, UntaintedApart

\* A verdict is given once, whatever a worker that comes back late does, and a
\* candidate passes only on documents that no model was shown by then, whatever
\* sessions do while it is evaluated (validation.run).
THEOREM VerdictOnce == HoldoutSpec => VerdictStands
<1>1. ASSUME IInv, [HoldoutNext]_vars, NEW l \in Learned, holdout[l].state \in Terminal
      PROVE  holdout'[l] = holdout[l]
  <2>1. HoldoutTypeOK /\ HoldoutsTell /\ holdout \in [Learned -> Holdouts]
    BY <1>1 DEF IInv, HoldoutTypeOK
  <2>2. CASE Stays
    BY <2>2 DEF Stays
  <2>3. ASSUME NEW k \in Learned,
               \/ \E n \in DOMAIN captures : Freeze(k, n)
               \/ Select(k)
               \/ \E result \in Terminal : Verdict(k, result)
               \/ Late(k)
        PROVE  holdout'[l] = holdout[l]
    <3>1. holdout[k].state \in {"none", "awaiting_evidence", "running"}
      <4>1. (\E n \in DOMAIN captures : Freeze(k, n)) => holdout[k].state = "none"
        <5>1. \A n \in DOMAIN captures : Freeze(k, n) => holdout[k] = NoHoldout
          BY <2>1, RowsAfter
        <5> QED
          BY <5>1 DEF NoHoldout
      <4>2. Select(k) => holdout[k].state = "awaiting_evidence"
        BY <2>1, RowsAfter
      <4>3. (\E result \in Terminal : Verdict(k, result)) \/ Late(k) => holdout[k].state = "running"
        BY <2>1, RowsAfter
      <4> QED
        BY <2>3, <4>1, <4>2, <4>3
    <3>2. l # k
      BY <1>1, <3>1 DEF Terminal
    <3>3. PICK r : holdout' = [holdout EXCEPT ![k] = r]
      BY <2>1, <2>3, OtherRowsStay
    <3> QED
      BY <2>1, <3>2, <3>3
  <2> QED
    BY <1>1, <2>1, <2>2, <2>3, HoldoutSteps
<1>2. IInv /\ [HoldoutNext]_vars =>
         [\A l \in Learned :
             /\ holdout[l].state \in Terminal => holdout'[l] = holdout[l]
             /\ holdout[l].state # "passed" /\ holdout'[l].state = "passed" =>
                   \A o \in exposed : Apart(holdout[l].capture, o)]_vars
  BY <1>1, PassingIsUnseen DEF IInv
<1> QED
  BY <1>2, Invariant, PTL DEF HoldoutSpec, VerdictStands
=============================================================================
