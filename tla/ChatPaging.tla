------------------------------ MODULE ChatPaging ------------------------------
(***************************************************************************)
(* The two paged queries of ChatService, on_chat_history (a cursor below   *)
(* which messages are listed, newest first) and on_list_rooms (an offset,  *)
(* oldest first), as a client walks them to the end while rows are added.  *)
(***************************************************************************)
EXTENDS Naturals, Sequences, SequencesExt

CONSTANTS Limits,   \* page sizes clients ask for
          PageSize, \* history_page_size, max_list_rooms_limit
          MaxRows   \* bound: rows

PagingAssumption == Limits \subseteq Nat \ {0} /\ PageSize \in Nat \ {0} /\ MaxRows \in Nat

VARIABLES rows,                      \* rows of the table; their ids are 1 .. rows
          what, limit,               \* "history" or "rooms", and the limit asked for
          cursor, got, base, done    \* the walk: position, ids so far, rows at its beginning

vars == <<rows, what, limit, cursor, got, base, done>>

Smaller(a, b) == IF a < b THEN a ELSE b

Init ==
  /\ rows \in 0 .. MaxRows /\ base = rows
  /\ what \in {"history", "rooms"} /\ limit \in {Smaller(n, PageSize) : n \in Limits}
  /\ cursor = 0 /\ got = <<>> /\ done = FALSE

AddRow ==
  /\ rows < MaxRows /\ rows' = rows + 1
  /\ UNCHANGED <<what, limit, cursor, got, base, done>>

\* ORDER BY message_id DESC LIMIT n, below the cursor if there is one.
RowsBelow(n) ==
  LET top == IF cursor = 0 THEN rows ELSE cursor - 1
  IN [k \in 1 .. Smaller(top, n) |-> top + 1 - k]

\* One row more than the page is fetched to tell.
HasMore == Len(RowsBelow(limit + 1)) > limit

\* on_chat_history; the client goes on below the last id while there is more.
OnChatHistory ==
  /\ what = "history" /\ ~done
  /\ LET page == RowsBelow(limit)
     IN /\ got' = got \o page /\ done' = ~HasMore
        /\ cursor' = IF page = <<>> THEN cursor ELSE Last(page)
  /\ UNCHANGED <<rows, what, limit, base>>

\* on_list_rooms: ORDER BY room_id LIMIT n OFFSET cursor; the client stops at a short page.
OnListRooms ==
  /\ what = "rooms" /\ ~done
  /\ LET n == Smaller(rows - cursor, limit)
     IN got' = got \o [k \in 1 .. n |-> cursor + k] /\ cursor' = cursor + n /\ done' = (n < limit)
  /\ UNCHANGED <<rows, what, limit, base>>

Next == AddRow \/ OnChatHistory \/ OnListRooms
Spec == Init /\ [][Next]_vars

-----------------------------------------------------------------------------
(* Properties *)

\* A client that pages to the end has each row that existed when it began, none twice,
\* in order, though others are added meanwhile.
PagesComplete ==
  /\ done => 1 .. base \subseteq ToSet(got)
  /\ \A j, k \in DOMAIN got : j < k => IF what = "history" THEN got[j] > got[k] ELSE got[j] < got[k]
=============================================================================
