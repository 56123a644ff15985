------------------------- MODULE NewsletterContract -------------------------
(***************************************************************************)
(* What the newsletter store promises its clients, as one atomic object    *)
(* per newsletter: a draft is created, edited any number of times, and     *)
(* then either sent once or deleted.  The "State Transitions" section of   *)
(* docs/newsletter-service-contract.md describes this object; the service  *)
(* has no such atomic object, it reads a row, decides, and writes later.   *)
(* NewsletterLifecycle.tla shows which version of the promise its code     *)
(* keeps.                                                                  *)
(***************************************************************************)
EXTENDS Integers

CONSTANTS
  Newsletters,       \* ids a draft may be created under
  Sends,             \* identities of the send requests, each mints one group_id
  Projects,          \* project_uid values
  Contents,          \* what an author may put in a draft
  Totals,            \* what total_recipients may hold
  None,              \* the value of a column that is not set
  SentRowsDeletable  \* FALSE: the documented promise; TRUE: the one the code keeps

VARIABLE row         \* row[n]: the row stored under id n

(***************************************************************************)
(* "none" and "deleted" both mean that there is no row; the other columns  *)
(* of a deleted row are history, which nothing reads.                      *)
(***************************************************************************)
Blank == [status |-> "none", version |-> 0, project |-> None,
          content |-> None, groupId |-> None, total |-> 0]

FreshDraft(p, c) == [status |-> "draft", version |-> 1, project |-> p,
                     content |-> c, groupId |-> None, total |-> 0]

Deletable == IF SentRowsDeletable THEN {"draft", "sent"} ELSE {"draft"}

Init == row = [n \in Newsletters |-> Blank]

Create(n) ==
  /\ row[n].status = "none"
  /\ \E p \in Projects, c \in Contents :
        row' = [row EXCEPT ![n] = FreshDraft(p, c)]

(***************************************************************************)
(* An edit leaves a draft in the same project, one version later.          *)
(***************************************************************************)
Edited(x, c) == [x EXCEPT !.content = c, !.version = @ + 1]

Edit(n) ==
  /\ row[n].status = "draft"
  /\ \E c \in Contents : row' = [row EXCEPT ![n] = Edited(row[n], c)]

(***************************************************************************)
(* A send keeps the author's content, records who it went to and under     *)
(* which group_id, and is the last change the content can see.             *)
(***************************************************************************)
Signed(x, g, k) == [x EXCEPT !.status = "sent", !.groupId = g, !.total = k,
                             !.version = @ + 1]

Send(n) ==
  /\ row[n].status = "draft"
  /\ \E g \in Sends, k \in Totals :
        row' = [row EXCEPT ![n] = Signed(row[n], g, k)]

Remove(n) ==
  /\ row[n].status \in Deletable
  /\ row' = [row EXCEPT ![n] = [@ EXCEPT !.status = "deleted"]]

Next == \E n \in Newsletters : Create(n) \/ Edit(n) \/ Send(n) \/ Remove(n)

Spec == Init /\ [][Next]_row
=============================================================================
