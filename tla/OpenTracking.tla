---------------------------- MODULE OpenTracking ----------------------------
(***************************************************************************)
(* The tracking pixel of one newsletter and the table newsletter_opens.    *)
(*                                                                         *)
(* A hit is served by three statements: the handler's lookup, the lookup   *)
(* of RecordOpenWithHash, and the insert.  Hits of one mail client, or of  *)
(* several, run side by side, and the newsletter, while it is a draft (a   *)
(* test or a preview), may be deleted under them.                          *)
(*                                                                         *)
(*   internal/handler/open.go            OpenPixel                         *)
(*   internal/service/newsletter.go      RecordOpenWithHash                *)
(*   internal/repository/postgres.go     RecordOpen                        *)
(*   internal/schema/schema.sql          newsletter_opens                  *)
(***************************************************************************)
EXTENDS Integers, FiniteSets

CONSTANTS
  Hashes,         \* well-formed recipient hashes
  Paths,          \* project_uid values a URL may carry; the newsletter is Home's
  Home,
  Hits,           \* requests of the tracking pixel
  Hours,          \* the clock runs from hour 1 to Hours
  Shapes          \* what keeps one open per recipient and hour: schema.sql
                  \* creates an "index", RecordOpen names a "constraint"

ASSUME OpenTrackingAssumption == Home \in Paths /\ Hours \in Nat \ {0}

VARIABLES
  shape,      \* the uniqueness the table has
  exists,     \* the newsletter is in its table
  now,        \* the current hour
  opens,      \* newsletter_opens: pairs of a hash and an hour
  hit         \* hit[q]: a pixel request, and how it ended

opensVars == <<shape, exists, now, opens, hit>>

NoHash == "none"    \* r= missing, or not 64 hexadecimal digits

OpensInit ==
  /\ shape \in Shapes
  /\ exists = TRUE
  /\ now = 1
  /\ opens = {}
  /\ hit = [q \in Hits |-> [pc |-> "idle", project |-> Home, hash |-> NoHash]]

Tick ==
  /\ now < Hours
  /\ now' = now + 1
  /\ UNCHANGED <<shape, exists, opens, hit>>

(***************************************************************************)
(* Deleting the newsletter deletes its opens (ON DELETE CASCADE).          *)
(***************************************************************************)
DeleteNewsletter ==
  /\ exists
  /\ exists' = FALSE
  /\ opens' = {}
  /\ UNCHANGED <<shape, now, hit>>

(***************************************************************************)
(* Whatever happens the client gets the picture; how a hit ended is kept   *)
(* for the properties.  The handler compares the project only when its own *)
(* lookup succeeds.                                                        *)
(***************************************************************************)
HitTo(q, l) == hit' = [hit EXCEPT ![q].pc = l]

OpenPixel(q, p, h) ==
  /\ hit[q].pc = "idle"
  /\ hit' = [hit EXCEPT ![q] = [pc |-> "lookup", project |-> p, hash |-> h]]
  /\ UNCHANGED <<shape, exists, now, opens>>

PixelLookup(q) ==
  /\ hit[q].pc = "lookup"
  /\ \/ exists /\ hit[q].project # Home /\ HitTo(q, "rejected")
     \/ exists /\ hit[q].project = Home /\ HitTo(q, "get")
     \/ HitTo(q, "get")                                  \* the lookup failed
  /\ UNCHANGED <<shape, exists, now, opens>>

RecordOpenWithHashButUnchecked(q) ==
  /\ hit[q].pc = "get"
  /\ HitTo(q, IF exists THEN "insert" ELSE "error")
  /\ UNCHANGED <<shape, exists, now, opens>>
RecordOpenWithHash(q) ==
  /\ hit[q].pc = "get"
  /\ \/ exists /\ hit[q].hash # NoHash /\ HitTo(q, "insert")
     \/ exists /\ hit[q].hash = NoHash /\ HitTo(q, "rejected")
     \/ HitTo(q, "error")                  \* not found, or the database failed
  /\ UNCHANGED <<shape, exists, now, opens>>

(***************************************************************************)
(* ON CONFLICT ON CONSTRAINT names the unique index of schema.sql; for     *)
(* PostgreSQL the name of an index is not that of a constraint, and it     *)
(* refuses the statement before it looks at any row.                       *)
(***************************************************************************)
RecordOpen(q) ==
  /\ hit[q].pc = "insert"
  /\ \/ /\ exists /\ shape = "constraint"
        /\ opens' = opens \cup {<<hit[q].hash, now>>}
        /\ HitTo(q, "recorded")
     \/ /\ ~ exists \/ shape = "index"
        /\ HitTo(q, "refused")
        /\ UNCHANGED opens
     \/ HitTo(q, "error") /\ UNCHANGED opens              \* the database failed
  /\ UNCHANGED <<shape, exists, now>>

Pixel(q) ==
  \/ \E p \in Paths, h \in Hashes \cup {NoHash} : OpenPixel(q, p, h)
  \/ PixelLookup(q)
  \/ RecordOpenWithHash(q)
  \/ RecordOpen(q)

OpensNext == Tick \/ DeleteNewsletter \/ \E q \in Hits : Pixel(q)

OpensSpec == OpensInit /\ [][OpensNext]_opensVars

-----------------------------------------------------------------------------
OpensTypeOK ==
  /\ shape \in Shapes
  /\ exists \in BOOLEAN
  /\ now \in 1 .. Hours
  /\ opens \subseteq Hashes \X (1 .. Hours)
  /\ hit \in [Hits -> [pc : {"idle", "lookup", "get", "insert", "recorded",
                             "rejected", "refused", "error"},
                       project : Paths, hash : Hashes \cup {NoHash}]]

(***************************************************************************)
(* The database refuses no insert for a newsletter that is there: a repeat *)
(* hit "within the same hour" may "collapse to a no-op"                    *)
(* (postgres.go:219-220), but the statement itself is one it accepts.      *)
(***************************************************************************)
InsertsSucceed ==
  [][\A q \in Hits : RecordOpen(q) /\ exists => hit'[q].pc # "refused"]_opensVars
=============================================================================
