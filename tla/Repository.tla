------------------------------ MODULE Repository ------------------------------
(***************************************************************************)
(* Git as control/repository.py uses it: the bare repository the template  *)
(* is published into, which all deliveries of one host share, and the      *)
(* workspace of each delivery.  An operator is one git command and what it *)
(* leaves behind; module Host calls them in the order of the code.         *)
(*                                                                         *)
(* Everything in a workspace is named by its tree, as in WorkOrder: 1 is   *)
(* the template's tree, every edit makes the next one, and a commit is the *)
(* number of the tree it records.                                          *)
(***************************************************************************)
EXTENDS Orders

TemplateTree == 1

VARIABLES
  template,   \* <work-dir>/template.git: its HEAD file exists, its branch main
  staged,     \* the commit each process made in its staging directory
  work        \* the workspace of each delivery

\* cloned: the directory is populated; base: the commit it was cloned at;
\* head, index, tree: the trees of HEAD, of the index and of the files;
\* branch: eds/<work-order> exists and is checked out.
Workspace == [cloned : BOOLEAN, base : Commits, head : Nat, index : Nat, tree : Nat,
              branch : BOOLEAN]

NoWorkspace == [cloned |-> FALSE, base |-> NoCommit, head |-> NoTree, index |-> NoTree,
                tree |-> NoTree, branch |-> FALSE]

RepositoryInit ==
  /\ template = [head |-> FALSE, main |-> NoCommit]
  /\ staged = [d \in Deliveries |-> NoCommit]
  /\ work = [d \in Deliveries |-> NoWorkspace]

RepositoryTypeOK ==
  /\ template \in [head : BOOLEAN, main : Commits]
  /\ staged \in [Deliveries -> Commits]
  /\ work \in [Deliveries -> Workspace]

-----------------------------------------------------------------------------
(* ensure_bare_repo.                                                       *)

Published == template.head

\* git init --bare: a repository with a HEAD and no commit; running it on an
\* existing one changes nothing.
GitInitBare == template' = [template EXCEPT !.head = TRUE]

\* The commit of the staging directory.  Two commits of the same files made in
\* the same second are the same commit.
GitStage(d) ==
  \E c \in {d} \cup ({staged[e] : e \in Deliveries} \ {NoCommit}) :
    staged' = [staged EXCEPT ![d] = c]

\* Mutant: git push --force.
PushForced(d) == staged[d] = NoCommit

\* git push main, into an empty repository or of the commit that is there: any
\* other one is not a fast-forward, and rejected.
PushRejected(d) == template.main \notin {NoCommit, staged[d]}

GitPush(d) == template' = [template EXCEPT !.main = staged[d]]

-----------------------------------------------------------------------------
(* checkout.                                                               *)

Populated(d) == work[d].cloned

\* git clone: of an empty repository, too, which leaves a workspace without a
\* commit.
GitClone(d) ==
  work' = [work EXCEPT ![d] =
    IF template.main = NoCommit
    THEN [NoWorkspace EXCEPT !.cloned = TRUE]
    ELSE [NoWorkspace EXCEPT !.cloned = TRUE, !.base = template.main, !.head = TemplateTree,
                             !.index = TemplateTree, !.tree = TemplateTree]]

\* git rev-parse HEAD fails where there is no commit.
HasHead(d) == work[d].head # NoTree

-----------------------------------------------------------------------------
(* commit_candidate.                                                       *)

\* git branch --list, then git checkout or git checkout -b.
GitCheckoutBranch(d) == work' = [work EXCEPT ![d].branch = TRUE]

\* git add -A takes the files as they are at that moment.
GitAdd(d) == work' = [work EXCEPT ![d].index = work[d].tree]

\* git status --porcelain reports what is staged and what is not.
Dirty(d) == work[d].index # work[d].head \/ work[d].tree # work[d].index

\* git commit fails when nothing is staged.
NothingStaged(d) == work[d].index = work[d].head

GitCommit(d) == work' = [work EXCEPT ![d].head = work[d].index]

\* A file changes in the workspace.
FilesChange(d) == work' = [work EXCEPT ![d].tree = @ + 1]
=============================================================================
