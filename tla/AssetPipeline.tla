--------------------------- MODULE AssetPipeline ---------------------------
(***************************************************************************)
(* Obstacle assets: appearance from two providers or the built-in fallback *)
(* (assets/service.py, providers.py, builtin.py), kept in a cache of files  *)
(* that are created once (assets/cache.py), and physics that wait for a     *)
(* human's decision in a ledger of files (assets/approvals.py).  Requests   *)
(* and decisions run side by side; the process dies between any two writes, *)
(* also inside one, a write fails (what is left of its file stays), and a   *)
(* startup seeds the fallback again.                                        *)
(*                                                                         *)
(* Abstracted: bytes are the artifact they are of, an image and its mesh    *)
(* are one artifact, and what a provider's snapshot says, which nothing     *)
(* reads, is left out.  Reads of several files are one step: a file only    *)
(* goes from absent to torn to whole, so reading them apart finds nothing   *)
(* another single moment would not.                                        *)
(***************************************************************************)
EXTENDS Naturals, Sequences, FiniteSets

CONSTANTS Requests,
          Artifacts,    \* what the providers may produce
          Fallback,     \* the built-in artifact, under a request of its own
          Proposals,    \* [origin, uncertain, convex, prior, geometry]
          Workers,      \* callers of generate
          Humans,       \* callers of record_human_decision
          MaxBoots,     \* bound on startups
          MaxCalls,     \* bound on calls of generate, refresh and decide
          Torn, None

VARIABLES files,        \* path -> content: absent, torn or whole
          configured,   \* whether both providers have an endpoint
          server,       \* "down", "starting", "up" or "refused"
          boots, calls,
          work,         \* what each caller, and the startup, is doing
          answers       \* history: what generate answered

assetVars == <<files, configured, server, boots, calls, work, answers>>

Startup == "startup"
Bundles == (Requests \X Artifacts) \cup {<<Fallback, Fallback>>}
FallbackBundle == <<Fallback, Fallback>>

\* PhysicalProposal.requires_human_approval
NeedsApproval(p) == p.origin = "agent" \/ p.uncertain
Requirements == Bundles \X {p \in Proposals : NeedsApproval(p)}

Paths == ({"artifact"} \X (Artifacts \cup {Fallback}))
         \cup ({"manifest", "manifest checksum"} \X Bundles)
         \cup ({"alias", "alias checksum"} \X Requests)
         \cup ({"requirement", "decision", "decision checksum"} \X Requirements)

\* store_bundle's files in order; the fallback is bound to no request.
BundleWrites(b) ==
  << <<<<"artifact", b[2]>>, b[2]>>,
     <<<<"manifest", b>>, b>>, <<<<"manifest checksum", b>>, b>> >>
AliasWrites(b) == << <<<<"alias", b[1]>>, b>>, <<<<"alias checksum", b[1]>>, b>> >>

\* record_human_decision: the checksum first.
DecisionWrites(q, decision) ==
  << <<<<"decision checksum", q>>, decision>>, <<<<"decision", q>>, decision>> >>

Whole(b) ==
  /\ files[<<"manifest", b>>] = b /\ files[<<"manifest checksum", b>>] = b
  /\ files[<<"artifact", b[2]>>] = b[2]

Idle == [at |-> "idle", request |-> None, proposal |-> None, route |-> None, bundle |-> None,
         writes |-> <<>>, open |-> FALSE]

Init ==
  /\ files = [p \in Paths |-> None]
  /\ configured \in BOOLEAN
  /\ server = "down"
  /\ boots = 0
  /\ calls = 0
  /\ work = [w \in Workers \cup Humans \cup {Startup} |-> Idle]
  /\ answers = {}

Call(w) ==
  /\ server = "up" /\ work[w].at = "idle"
  /\ calls < MaxCalls
  /\ calls' = calls + 1
Becomes(w, changed) == work' = [work EXCEPT ![w] = changed]
Raises(w) == Becomes(w, Idle) /\ server' = IF w = Startup THEN "refused" ELSE server

-----------------------------------------------------------------------------
\* _write_once: create, fill, or compare with what is there.  Mutant: a file
\* that differs is written over.
ReplacedBy(w) == work[w].writes[1][2]
Kept(w) == files[work[w].writes[1][1]]

Pending(w) == work[w].writes # <<>>
Create(w) ==
  LET path == work[w].writes[1][1]
  IN  /\ Pending(w) /\ ~work[w].open /\ files[path] = None
      /\ files' = [files EXCEPT ![path] = Torn]
      /\ Becomes(w, [work[w] EXCEPT !.open = TRUE])
      /\ UNCHANGED <<configured, server, boots, calls, answers>>

Fill(w) ==
  /\ Pending(w) /\ work[w].open
  /\ files' = [files EXCEPT ![work[w].writes[1][1]] = work[w].writes[1][2]]
  /\ Becomes(w, [work[w] EXCEPT !.open = FALSE, !.writes = Tail(@)])
  /\ UNCHANGED <<configured, server, boots, calls, answers>>

FindWritten(w) ==
  LET path == work[w].writes[1][1]
  IN  /\ Pending(w) /\ ~work[w].open /\ files[path] # None
      /\ files' = [files EXCEPT ![path] = Kept(w)]
      /\ IF Kept(w) = work[w].writes[1][2]
         THEN Becomes(w, [work[w] EXCEPT !.writes = Tail(@)]) /\ UNCHANGED server
         ELSE Raises(w)
      /\ UNCHANGED <<configured, boots, calls, answers>>

\* An OSError on the way: the file is not created, or filled in part, or not known
\* to be on disk.  While a bundle is stored generate falls back; else it is raised.
WriteFails(w) ==
  LET path == work[w].writes[1][1]
  IN  /\ Pending(w)
      /\ \/ ~work[w].open /\ UNCHANGED files
         \/ /\ work[w].open
            /\ \E left \in {Torn, work[w].writes[1][2]} : files' = [files EXCEPT ![path] = left]
      /\ IF w # Startup /\ work[w].at = "storing"
         THEN /\ Becomes(w, [work[w] EXCEPT !.at = "failed", !.bundle = None,
                                            !.writes = <<>>, !.open = FALSE])
              /\ UNCHANGED server
         ELSE Raises(w)
      /\ UNCHANGED <<configured, boots, calls, answers>>

-----------------------------------------------------------------------------
\* AssetGenerationPipeline(): seed_verified_fallback, then the server serves.
Boot ==
  /\ server = "down" /\ boots < MaxBoots
  /\ server' = "starting"
  /\ boots' = boots + 1
  /\ Becomes(Startup, [Idle EXCEPT !.at = "storing", !.writes = BundleWrites(FallbackBundle)])
  /\ UNCHANGED <<files, configured, calls, answers>>

Seeded ==
  /\ server = "starting" /\ ~Pending(Startup) /\ Whole(FallbackBundle)
  /\ server' = "up"
  /\ Becomes(Startup, Idle)
  /\ UNCHANGED <<files, configured, boots, calls, answers>>

Crash ==
  /\ server # "down"
  /\ server' = "down"
  /\ work' = [w \in DOMAIN work |-> Idle]
  /\ UNCHANGED <<files, configured, boots, calls, answers>>

-----------------------------------------------------------------------------
\* _apply_approval_gate: a proposal that needs a human's approval is submitted
\* first.
Gated(w, b, route) ==
  Becomes(w, [work[w] EXCEPT !.at = "gate", !.route = route, !.bundle = b,
    !.writes = IF NeedsApproval(work[w].proposal)
               THEN << <<<<"requirement", <<b, work[w].proposal>>>>, "submitted">> >> ELSE <<>>])

\* lookup_request: absent, whole, or an error that no fallback hides.
Generate(w, r, p) ==
  LET alias == files[<<"alias", r>>]
      checksum == files[<<"alias checksum", r>>]
      asks == [Idle EXCEPT !.request = r, !.proposal = p]
  IN  /\ Call(w)
      /\ \/ /\ alias = None /\ checksum = None
            /\ Becomes(w, [asks EXCEPT !.at = "ask"])
         \/ /\ alias = checksum /\ alias \in Bundles /\ Whole(alias)
            /\ Becomes(w, [asks EXCEPT !.at = "found", !.bundle = alias])
      /\ UNCHANGED <<files, configured, server, boots, answers>>

FromCache(w) ==
  /\ work[w].at = "found"
  /\ Gated(w, work[w].bundle, "cache")
  /\ UNCHANGED <<files, configured, server, boots, calls, answers>>

\* _fallback_result: a provider is unconfigured, or has failed.
FallBack(w) ==
  /\ \/ work[w].at = "ask" /\ ~configured
     \/ work[w].at = "failed"
  /\ Whole(FallbackBundle)
  /\ Gated(w, FallbackBundle, "fallback")
  /\ UNCHANGED <<files, configured, server, boots, calls, answers>>

\* The adapters: a response is used only if it is a JSON object of bounded size
\* with non-empty base64 data of the kind asked for.
Faults == {"unreachable", "oversized", "not json", "no data", "empty"}
Good(k, response) ==
  response \notin Faults \cup IF k = "reference" THEN {"not an image"}
                             ELSE {"other format", "not a mesh"}
Responses == {"good", "not an image", "other format", "not a mesh"} \cup Faults

\* The reference image is asked for first, and the mesh is made from it.
Ask(w, image, mesh) ==
  /\ work[w].at = "ask" /\ configured
  /\ Becomes(w, [work[w] EXCEPT !.at = IF Good("reference", image) /\ Good("mesh", mesh)
                                       THEN "meshed" ELSE "failed"])
  /\ UNCHANGED <<files, configured, server, boots, calls, answers>>

Store(w, a) ==
  LET b == <<work[w].request, a>>
  IN  /\ work[w].at = "meshed"
      /\ Becomes(w, [work[w] EXCEPT !.at = "storing", !.bundle = b,
                                    !.writes = BundleWrites(b) \o AliasWrites(b)])
      /\ UNCHANGED <<files, configured, server, boots, calls, answers>>

Stored(w) ==
  /\ w # Startup /\ work[w].at = "storing" /\ ~Pending(w)
  /\ Gated(w, work[w].bundle, "live")
  /\ UNCHANGED <<files, configured, server, boots, calls, answers>>

\* WorldAdmissibleAsset: a convex collider has an approval, and its geometry is
\* not the rendering mesh.
Admissible(p, b, approval) == p.convex => approval # None /\ p.geometry # b[2]

\* decision_for: absent, or whole with its checksum.
DecisionOf(q) ==
  LET decision == files[<<"decision", q>>]
  IN  IF decision = None /\ files[<<"decision checksum", q>>] = None THEN "undecided"
      ELSE IF decision \in {None, Torn} \/ decision # files[<<"decision checksum", q>>]
           THEN "invalid" ELSE decision.verdict

Answer(w) ==
  LET p == work[w].proposal
      b == work[w].bundle
      verdict == IF NeedsApproval(p) THEN DecisionOf(<<b, p>>) ELSE "approve"
      approval == IF NeedsApproval(p) THEN "decision" ELSE p.prior
      state == [approve |-> "ready", reject |-> "rejected", undecided |-> "blocked"]
  IN  /\ work[w].at = "gate" /\ ~Pending(w)
      /\ Becomes(w, Idle)
      /\ answers' = IF \/ verdict = "invalid"
                       \/ verdict = "approve" /\ ~Admissible(p, b, approval)
                    THEN answers
                    ELSE answers \cup {[request |-> work[w].request, proposal |-> p,
                           route |-> work[w].route, bundle |-> b, state |-> state[verdict]]}
      /\ UNCHANGED <<files, configured, server, boots, calls>>

\* refresh_admission of an answer given earlier.
Refresh(w, x) ==
  /\ Call(w)
  /\ Whole(x.bundle)
  /\ Becomes(w, [Idle EXCEPT !.at = "found", !.request = x.request, !.proposal = x.proposal,
                             !.bundle = x.bundle, !.route = x.route])
  /\ UNCHANGED <<files, configured, server, boots, answers>>

\* record_human_decision: each decision is made at a time of its own.
Decide(h, q, verdict) ==
  /\ Call(h)
  /\ files[<<"requirement", q>>] = "submitted"
  /\ Becomes(h, [Idle EXCEPT !.at = "deciding",
                   !.writes = DecisionWrites(q,
                                [by |-> h, verdict |-> verdict, at |-> calls])])
  /\ UNCHANGED <<files, configured, server, boots, answers>>

Decided(h) ==
  /\ work[h].at = "deciding" /\ ~Pending(h)
  /\ Becomes(h, Idle)
  /\ UNCHANGED <<files, configured, server, boots, calls, answers>>

Next ==
  \/ Boot \/ Seeded \/ Crash
  \/ \E w \in DOMAIN work : Create(w) \/ Fill(w) \/ FindWritten(w) \/ WriteFails(w)
  \/ \E w \in Workers :
       \/ FromCache(w) \/ FallBack(w) \/ Stored(w) \/ Answer(w)
       \/ \E r \in Requests, p \in Proposals : Generate(w, r, p)
       \/ \E image, mesh \in Responses : Ask(w, image, mesh)
       \/ \E a \in Artifacts : Store(w, a)
       \/ \E x \in answers : Refresh(w, x)
  \/ \E h \in Humans :
       \/ Decided(h)
       \/ \E q \in Requirements, verdict \in {"approve", "reject"} : Decide(h, q, verdict)

Spec == Init /\ [][Next]_assetVars

-----------------------------------------------------------------------------
\* What generate answers stands.  However callers, humans and crashes interleave,
\* a request is never answered with two bundles that are not the fallback, a
\* proposal about a bundle is never both admitted and rejected, and one that needs
\* a human's approval is admitted only with that approval, whole, in the ledger.
AnswersStand ==
  \A x \in answers :
    /\ \A y \in answers : x.request = y.request =>
         \/ x.bundle = y.bundle
         \/ FallbackBundle \in {x.bundle, y.bundle}
    /\ \A y \in answers : x.bundle = y.bundle /\ x.proposal = y.proposal =>
         {x.state, y.state} # {"ready", "rejected"}
    /\ x.state = "ready" /\ NeedsApproval(x.proposal) =>
         DecisionOf(<<x.bundle, x.proposal>>) = "approve"
=============================================================================
