---------------------------- MODULE GitCheckouts ----------------------------
(***************************************************************************)
(* The check_git_*.py plugins: one checkout, in which somebody works while *)
(* it is checked, and its upstream.                                        *)
(*                                                                         *)
(* file is the state of one new file (absent, untracked, added to the      *)
(* index, or tracked and changed since); ahead are local commits, upstream *)
(* those of the remote and tracking those that were fetched.               *)
(***************************************************************************)
EXTENDS PluginStep

GitPlugins == {"uncommitted", "up_to_date", "branch", "bare", "dirty", "valid", "not_remote", "not_detached"}
GitWorld == [repo |-> TRUE, bare |-> FALSE, file |-> "absent", head |-> "main", valid |-> TRUE, remote |-> FALSE,
             ahead |-> 0, upstream |-> 0, tracking |-> 0, reachable |-> TRUE]
GitFiles == {"absent", "untracked", "staged", "changed"}
GitWorlds ==
    {[GitWorld EXCEPT !.file = f, !.ahead = n, !.upstream = u] : f \in GitFiles, n \in 0..1, u \in 0..1}
    \cup {[GitWorld EXCEPT !.repo = FALSE], [GitWorld EXCEPT !.bare = TRUE], [GitWorld EXCEPT !.head = "detached"],
          [GitWorld EXCEPT !.head = "dev"], [GitWorld EXCEPT !.valid = FALSE], [GitWorld EXCEPT !.remote = TRUE],
          [GitWorld EXCEPT !.upstream = 1, !.tracking = 1], [GitWorld EXCEPT !.reachable = FALSE]}

\* The user writes, adds, resets, changes, commits; others push.
GitChanges(w) ==
    {[w EXCEPT !.file = f] : f \in GitFiles}
    \cup {[w EXCEPT !.upstream = 1], [w EXCEPT !.head = "dev"]}
    \cup (IF w.file \in {"staged", "changed"} THEN {[w EXCEPT !.file = "absent", !.ahead = 1]} ELSE {})

GitOptions == [directory : {TRUE}, noFetch : BOOLEAN, branch : {"main", "none", "no/name"}, notBare : BOOLEAN]
              \cup [directory : {FALSE}, noFetch : {FALSE}, branch : {"main"}, notBare : {FALSE}]

OpenRepo(w) == IF w.repo THEN [open |-> TRUE] ELSE Fatal("CRITICAL")
GitFirst(o, seen) ==
    CASE ~o.directory -> Exit("UNKNOWN")
      [] seen = <<>> -> Ask("repo")
      [] IsFatal(Last(seen)) -> Exit(Last(seen).fatal)

GitAnswer(w, request) ==
    CASE request = "repo" -> OpenRepo(w)
      [] request = "untracked" -> [found |-> w.file = "untracked"]
      [] request = "changed" -> [found |-> w.file = "changed"]
      [] request = "dirty" -> [found |-> w.file \in {"staged", "changed"}]
      [] request = "fetch" -> IF w.reachable THEN [fetched |-> TRUE] ELSE Fatal("CRITICAL")
      [] request = "branch" -> IF w.head = "detached" THEN Fatal("CRITICAL") ELSE [branch |-> w.head]
      [] request = "behind" -> [num |-> w.tracking]
      [] request = "ahead" -> [num |-> w.ahead]
      [] request = "bare" -> [found |-> w.bare]
      [] request = "valid" -> [found |-> ~w.valid]
      [] request = "remote" -> [found |-> w.remote]
      [] request = "detached" -> [found |-> w.head = "detached"]

GitEffect(w, request) ==
    IF request = "fetch" /\ w.reachable THEN [w EXCEPT !.tracking = w.upstream] ELSE w

\* A question after the other, to the first that is answered yes.
GitSearch(seen, questions) ==
    CASE \E i \in 2..Len(seen) : seen[i].found -> Exit("CRITICAL")
      [] Len(seen) - 1 = Len(questions) -> Exit("OK")
      [] OTHER -> Ask(questions[Len(seen)])

\* Untracked and changed files are both listed before either is judged.
UncommittedStep(seen) ==
    IF Len(seen) = 2 THEN Ask("changed") ELSE GitSearch(seen, <<"untracked", "changed", "dirty">>)
BareStep(o, seen) ==
    IF Len(seen) = 1 THEN Ask("bare") ELSE Exit(If(seen[2].found = o.notBare, "CRITICAL"))
DirtyStep(seen) == GitSearch(seen, <<"dirty">>)
ValidStep(seen) == GitSearch(seen, <<"valid">>)
NotRemoteStep(seen) == GitSearch(seen, <<"remote">>)
NotDetachedStep(seen) == GitSearch(seen, <<"detached">>)

BranchStep(o, seen) ==
    IF Len(seen) = 1 THEN Ask("branch") ELSE Exit(If(seen[2].branch # o.branch, "CRITICAL"))
BranchUsage(o) == o.branch \in {"none", "no/name"}

\* The commits are counted one way and then the other, after the fetch.
UpToDateStep(o, seen) ==
    LET plan == IF o.noFetch THEN <<"branch", "behind", "ahead">> ELSE <<"fetch", "branch", "behind", "ahead">>
    IN  IF Len(seen) - 1 < Len(plan) THEN Ask(plan[Len(seen)])
        ELSE Exit(If(seen[Len(seen)].num + seen[Len(seen) - 1].num # 0, "CRITICAL"))

GitStep(p, o, seen) ==
    CASE p = "branch" /\ BranchUsage(o) -> Exit("UNKNOWN")
      [] ~o.directory \/ seen = <<>> \/ IsFatal(Last(seen)) -> GitFirst(o, seen)
      [] p = "uncommitted" -> UncommittedStep(seen)
      [] p = "up_to_date" -> UpToDateStep(o, seen)
      [] p = "branch" -> BranchStep(o, seen)
      [] p = "bare" -> BareStep(o, seen)
      [] p = "dirty" -> DirtyStep(seen)
      [] p = "valid" -> ValidStep(seen)
      [] p = "not_remote" -> NotRemoteStep(seen)
      [] p = "not_detached" -> NotDetachedStep(seen)

\* What OK vouches for, each at a moment of its own.
GitClaims(p, o) ==
    CASE p = "uncommitted" -> {"untracked", "changed", "staged"}
      [] p = "up_to_date" -> {"ahead", "named"} \cup IF o.noFetch THEN {"fetched"} ELSE {"upstream", "reached"}
      [] p = "bare" -> {IF o.notBare THEN "not bare" ELSE "bare"}
      [] p = "dirty" -> {"changed", "staged"}
      [] OTHER -> {p}
GitHolds(c, o, w) ==
    /\ w.repo
    /\ CASE c \in GitFiles -> w.file # c
         [] c = "ahead" -> w.ahead = 0
         [] c = "upstream" -> w.upstream = 0
         [] c = "named" -> w.head # "detached"
         [] c = "reached" -> w.reachable
         [] c = "fetched" -> w.tracking = 0
         [] c = "branch" -> w.head = o.branch
         [] c = "bare" -> w.bare
         [] c = "not bare" -> ~w.bare
         [] c = "valid" -> w.valid
         [] c = "not_remote" -> ~w.remote
         [] c = "not_detached" -> w.head # "detached"
=============================================================================
