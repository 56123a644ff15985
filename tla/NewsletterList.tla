--------------------------- MODULE NewsletterList ---------------------------
(***************************************************************************)
(* The list of a project's newsletters, page by page.                      *)
(*                                                                         *)
(* A client follows page tokens while editors create, edit, send and       *)
(* delete the rows it is listing; an edit or a send moves its row to the   *)
(* head of the order.  A token carries no snapshot, only the last row      *)
(* returned.                                                               *)
(*                                                                         *)
(*   internal/repository/postgres.go     ListAll, listCursor               *)
(*   internal/service/newsletter.go      ListNewsletters                   *)
(*   internal/handler/list.go            ListNewsletters                   *)
(*                                                                         *)
(* A newsletter id stands for its place in the order of uuids.             *)
(***************************************************************************)
EXTENDS Integers, FiniteSets, Sequences, SequencesExt

CONSTANTS
  Ids,            \* newsletters, numbers as uuids are compared
  Moments,        \* the clock of the database runs from 1 to Moments; several
                  \* rows may be written at one moment
  Statuses,       \* values of the status query parameter ("" when missing)
  Limits,         \* page sizes a caller asks for
  DefaultLimit, MaxLimit

ASSUME NewsletterListAssumption ==
  /\ Ids \subseteq Nat /\ IsFiniteSet(Ids)
  /\ Limits \subseteq Int
  /\ MaxLimit \in Nat /\ DefaultLimit \in 1 .. MaxLimit
  /\ Moments \in Nat \ {0}

VARIABLES
  table,      \* table[i]: the row, "new" before its insert, "gone" after a delete
  moment,     \* now() of the database
  walk,       \* a client following page tokens
  returned,   \* the ids it got, in order
  settled     \* rows that match its filter and nobody touched since it began

listVars == <<table, moment, walk, returned, settled>>

-----------------------------------------------------------------------------
(***************************************************************************)
(* One page: rows of the project that match, ordered by updated_at and id  *)
(* downwards, after the cursor.  The statement reads one row more than the *)
(* limit: if there is one, the last row kept is the next page's cursor.    *)
(***************************************************************************)
Key(i) == <<table[i].at, i>>

Before(k, c) == k[1] < c[1] \/ (k[1] = c[1] /\ k[2] < c[2])

Matches(i, status) ==
  /\ table[i].status \in {"draft", "sent"}
  /\ status # "" => table[i].status = status

NoCursor == <<0, 0>>

AfterCursorButTimeOnly(status, c) ==
  {i \in Ids : Matches(i, status) /\ (c # NoCursor => Key(i)[1] < c[1])}
AfterCursor(status, c) ==
  {i \in Ids : Matches(i, status) /\ (c # NoCursor => Before(Key(i), c))}

EffectiveLimit(l) ==
  IF l <= 0 THEN DefaultLimit ELSE IF l > MaxLimit THEN MaxLimit ELSE l

Ordered(S) ==
  CHOOSE rows \in [1 .. Cardinality(S) -> S] :
    \A a, b \in DOMAIN rows : a < b => Before(Key(rows[b]), Key(rows[a]))

ListAll(status, c, l) ==
  LET limit == EffectiveLimit(l)
      rows == Ordered(AfterCursor(status, c))
      more == Len(rows) > limit
  IN [rows |-> IF more THEN SubSeq(rows, 1, limit) ELSE rows,
      next |-> IF more THEN Key(rows[limit]) ELSE NoCursor]

ValidStatus(status) == status \in {"", "draft", "sent"}

ListInit ==
  /\ table = [i \in Ids |-> [status |-> "new", at |-> 0]]
  /\ moment = 1
  /\ walk = [pc |-> "idle", status |-> "", limit |-> 0, next |-> NoCursor]
  /\ returned = <<>>
  /\ settled = {}

TakePage(status, c, l) ==
  LET page == ListAll(status, c, l)
  IN /\ walk' = [pc |-> IF page.next = NoCursor THEN "end" ELSE "more",
                 status |-> status, limit |-> l, next |-> page.next]
     /\ returned' = returned \o page.rows

ListNewsletters(status, l) ==
  /\ walk.pc = "idle"
  /\ \/ /\ ValidStatus(status)
        /\ TakePage(status, NoCursor, l)
        /\ settled' = {i \in Ids : Matches(i, status)}
     \/ /\ ~ ValidStatus(status)
        /\ walk' = [walk EXCEPT !.pc = "refused"]
        /\ UNCHANGED <<returned, settled>>
  /\ UNCHANGED <<table, moment>>

NextPageWithoutToken ==
  /\ walk.pc = "more"
  /\ TakePage(walk.status, NoCursor, walk.limit)
  /\ UNCHANGED <<table, moment, settled>>
NextPage ==
  /\ walk.pc = "more"
  /\ TakePage(walk.status, walk.next, walk.limit)
  /\ UNCHANGED <<table, moment, settled>>

(***************************************************************************)
(* The editors: Create, Update and MarkSent write updated_at; a sent row   *)
(* is not changed, but a delete that read it as a draft still removes it.  *)
(***************************************************************************)
Write(i, from, to) ==
  /\ table[i].status = from
  /\ table' = [table EXCEPT ![i] = [status |-> to, at |-> moment]]
  /\ settled' = settled \ {i}
  /\ UNCHANGED <<moment, walk, returned>>

CreateRow(i) == Write(i, "new", "draft")
EditRow(i)   == Write(i, "draft", "draft")
SendRow(i)   == Write(i, "draft", "sent")
DeleteRow(i) == Write(i, "draft", "gone") \/ Write(i, "sent", "gone")

Pass ==
  /\ moment < Moments
  /\ moment' = moment + 1
  /\ UNCHANGED <<table, walk, returned, settled>>

ListNext ==
  \/ \E i \in Ids : CreateRow(i) \/ EditRow(i) \/ SendRow(i) \/ DeleteRow(i)
  \/ Pass
  \/ \E s \in Statuses, l \in Limits : ListNewsletters(s, l)
  \/ NextPage

ListSpec == ListInit /\ [][ListNext]_listVars

-----------------------------------------------------------------------------
ListTypeOK ==
  /\ table \in [Ids -> [status : {"new", "draft", "sent", "gone"},
                        at : 0 .. Moments]]
  /\ moment \in 1 .. Moments
  /\ walk \in [pc : {"idle", "more", "end", "refused"}, status : {"", "draft", "sent"},
               limit : Limits \cup {0}, next : (0 .. Moments) \X (Ids \cup {0})]
  /\ returned \in Seq(Ids)
  /\ settled \subseteq Ids

(***************************************************************************)
(* "the next page resumes deterministically even when many rows share an   *)
(* updated_at" (postgres.go:88-89): a client that follows the tokens to    *)
(* the end gets every row that matched when it began and was left alone,   *)
(* whatever editors did to the rows around it, and it gets no row twice,   *)
(* also none that is edited or sent between two pages and moves.           *)
(***************************************************************************)
EveryRowOnce ==
  /\ walk.pc = "end" => settled \subseteq ToSet(returned)
  /\ IsInjective(returned)

(***************************************************************************)
(* The tokens lead to an end: what is left after the cursor shrinks with   *)
(* every page and no writer adds to it (but at the very moment the cursor  *)
(* names), so editors cannot keep a client paging.                         *)
(***************************************************************************)
Left == AfterCursor(walk.status, walk.next)

PagesRunOut ==
  [][walk.pc = "more" =>
       \/ UNCHANGED walk /\ (walk.next[1] < moment => Left' \subseteq Left)
       \/ walk'.pc = "end"
       \/ Cardinality(Left') < Cardinality(Left)]_listVars
=============================================================================
