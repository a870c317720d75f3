------------------------------ MODULE AdSchema ------------------------------
(***************************************************************************)
(* The rows of public.ads and public.ad_versions (sql/schema.sql and the   *)
(* ORM classes in models.py) and the functions of a row that every module  *)
(* of the ads component shares.  A column holds an abstract value or Null; *)
(* ids are the names of ads and requests, and the two timestamps are left  *)
(* out, since nothing here reads them.                                     *)
(***************************************************************************)

CONSTANTS Users,     \* principals, auth.users
          Values,    \* what a client may put into a column
          Null,      \* SQL NULL (JSON null in the metadata column)
          Gone,      \* stands where a table holds no row
          Contents   \* the column values an ad may take: all legal ones, or,
                     \* for TLC, the few that an instance uses

\* The columns a client can write.
Fields == {"title", "description", "source_url", "image_url", "image_model",
           "status", "metadata"}

\* The NOT NULL columns among them.
Required == {"title", "image_model", "status", "metadata"}

\* The columns that ad_versions repeats.
Snapped == {"title", "description", "image_url", "metadata"}

Columns == [Fields -> Values \cup {Null}]
Rows    == [owner : Users, cols : Contents]
Snaps   == [Snapped -> Values \cup {Null}]

ASSUME SchemaAssumption ==
    /\ Null \notin Values
    /\ Gone \notin Rows
    /\ \A c \in Contents : c \in Columns /\ \A f \in Required : c[f] # Null

\* What _snapshot() copies out of a row.
Snap(cols) == [f \in Snapped |-> cols[f]]

\* A row of ad_versions: the ad it belongs to, who wrote it, what it says.
Version(a, by, cols) == [ad |-> a, by |-> by, snap |-> Snap(cols)]
=============================================================================
