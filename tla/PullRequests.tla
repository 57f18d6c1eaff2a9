---------------------------- MODULE PullRequests ----------------------------
(***************************************************************************)
(* Pull requests: opening one from a project in a machine                  *)
(* (controlplane/internal/httpapi/gitops.go), and the review surface that  *)
(* reads, comments and merges one (httpapi/pr.go) through the GitHub and   *)
(* Gitea clients (controlplane/internal/github, gitea).  The providers are *)
(* external: GitHub has one valid access token per grant, which a refresh  *)
(* replaces, and a pull request whose head its author may move at any      *)
(* time, also between two requests of one listing.                         *)
(***************************************************************************)
EXTENDS Naturals, FiniteSets

CONSTANTS
    Handlers,       \* HTTP requests, each served once
    Items,          \* Items[c]: files and check runs of head commit c
    PageSize,       \* repoPageSize
    MaxHead, MaxTokens,
    May             \* "overlap": two requests at once; "push": the head moves;
                    \* "lost": GitHub acts and its answer is lost

VARIABLES
    remote,         \* the provider of the project's origin remote
    pat,            \* the user has stored a token for the Gitea host
    alive,          \* the GitHub grant
    valid, stored,  \* the access token GitHub accepts, and the one we hold
    pr,             \* the pull request: its state, its head, what was merged
    pc, op, tok,    \* a handler, its operation, the token it uses
    head, page, got,\* the head commit it read, its next page, items so far
    ans,            \* what it answered
    seen,           \* the head commit last shown to the user
    calls           \* <<provider called, provider of the token sent, provider of the remote>>

grantvars == <<alive, valid, stored>>
reqvars == <<pc, op, tok, head, page, got, ans>>
vars == <<remote, pat, grantvars, pr, reqvars, seen, calls>>

Reviews == {"detail", "files", "checks", "comment", "merge"}
NoToken == 0

Init ==
    /\ remote \in {"github", "gitea", "other", "none"} /\ pat \in BOOLEAN
    /\ alive = TRUE /\ valid = 1 /\ stored = 1
    /\ pr = [state |-> "open", head |-> 1, merged |-> 0, by |-> "none"]
    /\ pc = [h \in Handlers |-> "idle"] /\ op = [h \in Handlers |-> "none"] /\ tok = [h \in Handlers |-> NoToken]
    /\ head = [h \in Handlers |-> 0] /\ page = [h \in Handlers |-> 1] /\ got = [h \in Handlers |-> {}]
    /\ ans = [h \in Handlers |-> "none"] /\ seen = 0 /\ calls = {}

Busy(h) == pc[h] \notin {"idle", "done"}
MayStart == "overlap" \in May \/ \A h \in Handlers : ~Busy(h)
Go(h, to) == pc' = [pc EXCEPT ![h] = to] /\ UNCHANGED ans
Answer(h, a) == pc' = [pc EXCEPT ![h] = "done"] /\ ans' = [ans EXCEPT ![h] = a]

-----------------------------------------------------------------------------
\* GitHub.

Accepts(h) == tok[h] = valid

\* The token is rejected from now on, the grant still good; or the user
\* revokes the grant at github.com.
Invalidate ==
    /\ valid # NoToken /\ valid' = NoToken
    /\ UNCHANGED <<remote, pat, alive, stored, pr, reqvars, seen, calls>>

RevokeGrant ==
    /\ alive /\ alive' = FALSE /\ valid' = NoToken
    /\ UNCHANGED <<remote, pat, stored, pr, reqvars, seen, calls>>

\* The author pushes.
PushHead ==
    /\ "push" \in May /\ pr.state = "open" /\ pr.head < MaxHead
    /\ pr' = [pr EXCEPT !.head = @ + 1]
    /\ UNCHANGED <<remote, pat, grantvars, reqvars, seen, calls>>

-----------------------------------------------------------------------------
\* handleGitPR.

\* Mutant: every other host is taken for GitHub.
ProviderElse(r) == IF r = "gitea" THEN "gitea" ELSE "github"

\* parseRemote and the dispatch by its host; anything else is refused.
Provider(r) == CASE r = "github" -> "github" [] r = "gitea" -> "gitea" [] OTHER -> "unsupported"

OpenPR(h) ==
    /\ pc[h] = "idle" /\ MayStart
    /\ op' = [op EXCEPT ![h] = "open"]
    /\ \/ remote # "none" /\ Provider(remote) = "github" /\ tok' = [tok EXCEPT ![h] = stored] /\ Go(h, "call")
       \/ remote # "none" /\ Provider(remote) = "gitea" /\ Go(h, "gitea") /\ UNCHANGED tok
       \/ remote # "none" /\ Provider(remote) = "unsupported" /\ Answer(h, "unsupported_host") /\ UNCHANGED tok
       \/ remote = "none" /\ Answer(h, "no_remote") /\ UNCHANGED tok
    /\ UNCHANGED <<remote, pat, grantvars, pr, head, page, got, seen, calls>>

\* createGiteaPR: with the token stored for that host or not at all.
CreateGiteaPR(h) ==
    /\ pc[h] = "gitea"
    /\ \/ /\ pat /\ calls' = calls \union {<<"gitea", "gitea", remote>>}
          /\ \E a \in {"opened", "pr_exists", "no_commits", "githost_token_invalid", "bad_remote", "githost_unavailable"} : Answer(h, a)
       \/ ~pat /\ Answer(h, "githost_token_required") /\ UNCHANGED calls
    /\ UNCHANGED <<remote, pat, grantvars, pr, op, tok, head, page, got, seen>>

\* callGitHub: the first call, then once more with a fresh token.
CreateGitHubPR(h) ==
    /\ pc[h] \in {"call", "again"} /\ op[h] = "open"
    /\ calls' = calls \union {<<"github", "github", remote>>}
    /\ \/ Accepts(h) /\ \E a \in {"opened", "pr_exists", "no_commits", "github_unavailable"} : Answer(h, a)
       \/ ~Accepts(h) /\ IF pc[h] = "call" THEN Go(h, "refresh") ELSE Answer(h, "reconnect_github")
    /\ UNCHANGED <<remote, pat, grantvars, pr, op, tok, head, page, got, seen>>

\* Mutant: a rejected token is not refreshed.
NoForceRefresh(h) ==
    /\ pc[h] = "refresh" /\ Answer(h, "reconnect_github")
    /\ UNCHANGED <<remote, pat, grantvars, pr, op, tok, head, page, got, seen, calls>>

\* ForceRefresh replaces the pair whatever became of it meanwhile.
ForceRefresh(h) ==
    /\ pc[h] = "refresh"
    /\ \/ /\ alive /\ stored < MaxTokens
          /\ stored' = stored + 1 /\ valid' = stored' /\ tok' = [tok EXCEPT ![h] = stored'] /\ Go(h, "again")
       \/ ~alive /\ Answer(h, "reconnect_github") /\ UNCHANGED <<valid, stored, tok>>
    /\ UNCHANGED <<remote, pat, alive, pr, op, head, page, got, seen, calls>>

-----------------------------------------------------------------------------
\* The review surface.

\* prContext: a well-formed address and a token.
Review(h, o) ==
    /\ pc[h] = "idle" /\ MayStart
    /\ op' = [op EXCEPT ![h] = o] /\ tok' = [tok EXCEPT ![h] = stored] /\ Go(h, o)
    /\ UNCHANGED <<remote, pat, grantvars, pr, head, page, got, seen, calls>>

\* writePRFetchOK: what is answered when GitHub refuses the token.
Rejected(h) ==
    /\ pc[h] \in Reviews \union {"runs"} /\ ~Accepts(h) /\ Answer(h, "reconnect_github")
    /\ UNCHANGED <<remote, pat, grantvars, pr, op, tok, head, page, got, seen, calls>>

Unavailable(h) ==
    /\ pc[h] \in Reviews \union {"runs"} /\ \E a \in {"no_pr", "github_unavailable"} : Answer(h, a)
    /\ UNCHANGED <<remote, pat, grantvars, pr, op, tok, head, page, got, seen, calls>>

GetPR(h) ==
    /\ pc[h] = "detail" /\ Accepts(h)
    /\ head' = [head EXCEPT ![h] = pr.head] /\ seen' = pr.head /\ Answer(h, "ok")
    /\ UNCHANGED <<remote, pat, grantvars, pr, op, tok, page, got, calls>>

CommentPR(h) ==
    /\ pc[h] = "comment" /\ Accepts(h) /\ Answer(h, "ok")
    /\ UNCHANGED <<remote, pat, grantvars, pr, op, tok, head, page, got, seen, calls>>

\* Page p of the items of commit c.
PageOf(c, p) == {<<c, i>> : i \in {j \in 1..Items[c] : (p - 1) * PageSize < j /\ j <= p * PageSize}}

LastFiles(n) == n < PageSize

\* Mutant: the listing ends a page early.
LastRunsEarly(n, all, total) == n < PageSize \/ all + PageSize >= total

LastRuns(n, all, total) == n < PageSize \/ all >= total

\* Listing the files follows the pages of the head there is at each of them.
ListPRFiles(h) ==
    /\ pc[h] = "files" /\ Accepts(h)
    /\ LET items == PageOf(pr.head, page[h]) IN
       /\ got' = [got EXCEPT ![h] = @ \union items] /\ page' = [page EXCEPT ![h] = @ + 1]
       /\ IF LastFiles(Cardinality(items)) THEN Answer(h, "ok") /\ seen' = pr.head ELSE UNCHANGED <<pc, ans, seen>>
    /\ head' = [head EXCEPT ![h] = pr.head]
    /\ UNCHANGED <<remote, pat, grantvars, pr, op, tok, calls>>

\* The checks are those of the head read first.
ChecksHead(h) ==
    /\ pc[h] = "checks" /\ Accepts(h)
    /\ head' = [head EXCEPT ![h] = pr.head] /\ Go(h, "runs")
    /\ UNCHANGED <<remote, pat, grantvars, pr, op, tok, page, got, seen, calls>>

ListCheckRuns(h) ==
    /\ pc[h] = "runs" /\ Accepts(h)
    /\ LET runs == PageOf(head[h], page[h])  all == got[h] \union runs IN
       /\ got' = [got EXCEPT ![h] = all] /\ page' = [page EXCEPT ![h] = @ + 1]
       /\ IF LastRuns(Cardinality(runs), Cardinality(all), Items[head[h]]) THEN Answer(h, "ok") ELSE UNCHANGED <<pc, ans>>
    /\ UNCHANGED <<remote, pat, grantvars, pr, op, tok, head, seen, calls>>

\* What GitHub answers a merge: it merges the head there is, or refuses.
MergeStatuses == IF pr.state = "open" THEN {"merged", "not_merged", "405", "403", "409", "5xx"} ELSE {"405"}

\* Mutant: status 200 counts as a merge.
MergeAnswer(s) == CASE s \in {"merged", "not_merged"} -> "ok" [] s = "405" -> "not_mergeable"
                    [] s = "409" -> "head_changed" [] s = "403" -> "merge_forbidden" [] OTHER -> "github_unavailable"

\* MergePR: GitHub's status, and its body for a 200, become the answer.
AnswerTo(s) == CASE s = "merged" -> "ok" [] s \in {"not_merged", "405"} -> "not_mergeable"
                 [] s = "409" -> "head_changed" [] s = "403" -> "merge_forbidden" [] OTHER -> "github_unavailable"

MergePR(h) ==
    /\ pc[h] = "merge" /\ Accepts(h)
    /\ \E s \in MergeStatuses :
         /\ pr' = IF s = "merged" THEN [pr EXCEPT !.state = "merged", !.merged = pr.head, !.by = h] ELSE pr
         /\ Answer(h, AnswerTo(s)) \/ ("lost" \in May /\ Answer(h, "github_unavailable"))
    /\ UNCHANGED <<remote, pat, grantvars, op, tok, head, page, got, seen, calls>>

Serve(h) ==
    \/ CreateGiteaPR(h) \/ CreateGitHubPR(h) \/ ForceRefresh(h)
    \/ Rejected(h) \/ Unavailable(h) \/ GetPR(h) \/ CommentPR(h) \/ ListPRFiles(h)
    \/ ChecksHead(h) \/ ListCheckRuns(h) \/ MergePR(h)

Next ==
    \/ \E h \in Handlers : Serve(h) \/ OpenPR(h) \/ \E o \in Reviews : Review(h, o)
    \/ Invalidate \/ RevokeGrant \/ PushHead

Spec == Init /\ [][Next]_vars

-----------------------------------------------------------------------------
\* A pull request is opened at the provider of the project's remote, with
\* that provider's token: "owner/repo alone would silently address the wrong
\* provider's repository" (handleGitPR).
RightProvider == \A c \in calls : c[1] = c[3] /\ c[2] = c[1]

\* A listing whose head did not move while its pages were read is complete,
\* also when its length is a multiple of the page size.
ListingsWhole ==
    \A h \in Handlers :
        ans[h] = "ok" /\ op[h] \in {"files", "checks"} /\ (\A x \in got[h] : x[1] = head[h]) =>
            Cardinality(got[h]) = Items[head[h]]

\* A merge answered ok was made by that request, and one that was refused was
\* not.
MergeAnswersTrue ==
    \A h \in Handlers :
        op[h] = "merge" /\ pc[h] = "done" =>
            /\ ans[h] = "ok" => pr.by = h
            /\ ans[h] \notin {"ok", "github_unavailable"} => pr.by # h

\* Opening a pull request asks the user to reconnect only when the grant is
\* gone or a token the request got in place of a rejected one is rejected too
\* (callGitHub).
OpenReconnectsLast ==
    [][\A h \in Handlers : op[h] = "open" /\ ans[h] = "none" /\ ans'[h] = "reconnect_github" => ~alive \/ pc[h] = "again"]_vars

\* The same for every request ("the grant was revoked at github.com",
\* writePRFetchOK).
ReconnectOnlyIfDead == [][\A h \in Handlers : ans[h] = "none" /\ ans'[h] = "reconnect_github" => ~alive]_vars

\* What is merged is what the user was shown.
MergedIsReviewed == pr.merged > 0 /\ seen > 0 => pr.merged <= seen

\* A listing is of one commit.
ListingsOfOneHead ==
    \A h \in Handlers : ans[h] = "ok" /\ op[h] = "files" => \A x, y \in got[h] : x[1] = y[1]
=============================================================================
