------------------------------- MODULE LineEdit -------------------------------
(***************************************************************************)
(* The line editor of the shell (src/kernel/kern/line.c): the caller's     *)
(* buffer edited in place, the recall history, and the row of the screen   *)
(* that line_redraw paints.  The buffer is the caller's and keeps what     *)
(* earlier lines left in it; when the shell starts it is uninitialised.    *)
(* Columns are counted from the end of the prompt, and a line is shorter   *)
(* than the row.  A line that is as long as a history slot is copied past  *)
(* it: the behaviour is undefined from there on, and the model stops.      *)
(***************************************************************************)
EXTENDS Integers, SequencesExt

CONSTANTS CAP,        \* sizeof(line) in noc_repl, 512
          HIST_LEN,   \* 256
          HIST_SLOTS, \* HIST_MAX, 16
          Chars,      \* what can be typed
          Leftovers,  \* lengths of what the uninitialised buffer seems to hold
          MaxLines    \* bound: lines submitted

ASSUME LineAssumption ==
  /\ HIST_LEN \in Nat \ {0} /\ CAP \in Nat /\ CAP >= HIST_LEN /\ HIST_SLOTS \in Nat \ {0}
  /\ Leftovers \subseteq 0..(CAP - 1) /\ "nul" \notin Chars /\ MaxLines \in Nat

VARIABLES
  buf, len, cur, prev_len,  \* buf[0 .. cap-1] and the locals of line_read
  history,    \* history[0 .. hist_count-1]
  hist_pos,
  row,        \* the characters on the row of the screen
  epc,        \* "idle" outside line_read, "edit", "undefined"
  text, pos,  \* history: the line as the user means it, and the place in it
  submitted,  \* history: the lines returned so far
  kept        \* history: those of them that are worth keeping, see Keep

lineVars == <<buf, len, cur, prev_len, history, hist_pos, row, epc, text, pos, submitted, kept>>

NUL == "nul"
Blank == " "
Cells == 0..(CAP - 1)
Columns == 0..(2 * CAP)
BlankRow == [k \in Columns |-> Blank]

hist_count == Len(history)

\* strlen; CAP if nothing terminates the buffer.
strlen(b) == IF \E k \in Cells : b[k] = NUL
             THEN CHOOSE k \in Cells : b[k] = NUL /\ \A j \in 0..(k - 1) : b[j] # NUL
             ELSE CAP

Contents(b, l) == [k \in 1..l |-> b[k - 1]]
strcpy(b, s) == [k \in Cells |-> IF k < Len(s) THEN s[k + 1]
                                 ELSE IF k = Len(s) THEN NUL ELSE b[k]]

LineInit ==
  /\ \E n \in Leftovers : buf = [k \in Cells |-> IF k < n THEN "?" ELSE NUL]
  /\ len = 0 /\ cur = 0 /\ prev_len = 0
  /\ history = <<>> /\ hist_pos = 0 /\ row = BlankRow /\ epc = "idle"
  /\ text = <<>> /\ pos = 0 /\ submitted = <<>> /\ kept = <<>>

-----------------------------------------------------------------------------
\* line_redraw: the whole string in the buffer, blanks for what the line was
\* longer before, and the line again up to the cursor.
line_redraw(old, b, l, c, was) ==
  /\ buf' = b /\ len' = l /\ cur' = c /\ prev_len' = l
  /\ row' = [k \in Columns |->
       IF k < c \/ k < strlen(b) THEN b[k]
       ELSE IF k >= strlen(b) /\ k < strlen(b) + was - l THEN Blank ELSE old[k]]

Editing == epc = "edit" /\ UNCHANGED <<epc, history, submitted, kept>>

\* The user's line becomes t with the cursor at p.
Means(t, p) == text' = t /\ pos' = p

StartLine ==
  /\ epc = "idle" /\ Len(submitted) < MaxLines
  /\ hist_pos' = hist_count
  /\ line_redraw(BlankRow, buf, 0, 0, 0)
  /\ epc' = "edit" /\ Means(<<>>, 0)
  /\ UNCHANGED <<history, submitted, kept>>

\* hist_add: no empty line, no repetition of the last one, the oldest goes.
hist_add(h, s) ==
  IF s = <<>> \/ (h # <<>> /\ Last(h) = s) THEN h
  ELSE Append(IF Len(h) >= HIST_SLOTS THEN Tail(h) ELSE h, s)

\* History: the lines worth keeping are the ones that are not empty and do
\* not repeat the one before.
Keep(lines, s) ==
  IF s = <<>> \/ (lines # <<>> /\ Last(lines) = s) THEN lines ELSE Append(lines, s)

Enter ==
  /\ epc = "edit"
  /\ buf' = [buf EXCEPT ![len] = NUL]
  /\ IF len < HIST_LEN
       THEN history' = hist_add(history, Contents(buf, len)) /\ epc' = "idle"
       ELSE epc' = "undefined" /\ UNCHANGED history
  /\ submitted' = Append(submitted, text) /\ kept' = Keep(kept, text)
  /\ UNCHANGED <<len, cur, prev_len, hist_pos, row, text, pos>>

Backspace ==
  /\ Editing /\ cur > 0
  /\ hist_pos' = hist_count
  /\ line_redraw(row, [k \in Cells |-> IF k \in (cur - 1)..(len - 2) THEN buf[k + 1] ELSE buf[k]],
                 len - 1, cur - 1, prev_len)
  /\ Means(RemoveAt(text, pos), pos - 1)

\* Mutant of Delete: one character too few is moved.
Delete_OneShort ==
  /\ Editing /\ cur < len
  /\ hist_pos' = hist_count
  /\ line_redraw(row, [k \in Cells |-> IF k \in cur..(len - 3) THEN buf[k + 1] ELSE buf[k]],
                 len - 1, cur, prev_len)
  /\ Means(RemoveAt(text, pos + 1), pos)

Delete ==
  /\ Editing /\ cur < len
  /\ hist_pos' = hist_count
  /\ line_redraw(row, [k \in Cells |-> IF k \in cur..(len - 2) THEN buf[k + 1] ELSE buf[k]],
                 len - 1, cur, prev_len)
  /\ Means(RemoveAt(text, pos + 1), pos)

\* Left, Right, Home and End, when they move the cursor.
MoveTo(c, p) ==
  /\ Editing /\ cur # c
  /\ line_redraw(row, buf, len, c, prev_len)
  /\ Means(text, p)
  /\ UNCHANGED hist_pos

Left == cur > 0 /\ MoveTo(cur - 1, pos - 1)
Right == cur < len /\ MoveTo(cur + 1, pos + 1)
Home == MoveTo(0, 0)
EndKey == MoveTo(len, Len(text))

Recall(s) ==
  /\ line_redraw(row, strcpy(buf, s), Len(s), Len(s), prev_len)
  /\ Means(s, Len(s))

Up ==
  /\ Editing /\ hist_pos > 0
  /\ hist_pos' = hist_pos - 1
  /\ Recall(history[hist_pos])

\* Below the newest entry the line is empty; the buffer keeps its characters.
Down ==
  /\ Editing /\ hist_pos < hist_count
  /\ hist_pos' = hist_pos + 1
  /\ IF hist_pos + 1 < hist_count
       THEN Recall(history[hist_pos + 2])
       ELSE line_redraw(row, buf, 0, 0, prev_len) /\ Means(<<>>, 0)

\* Ctrl+C and Esc: the caller finds an empty line.
Cancel ==
  /\ epc = "edit"
  /\ len' = 0 /\ cur' = 0 /\ buf' = [buf EXCEPT ![0] = NUL] /\ hist_pos' = hist_count
  /\ epc' = "idle" /\ Means(<<>>, 0)
  /\ submitted' = Append(submitted, <<>>)
  /\ UNCHANGED <<prev_len, history, row, kept>>

Type(ch) ==
  /\ Editing /\ len + 1 < CAP
  /\ hist_pos' = hist_count
  /\ line_redraw(row, [k \in Cells |-> IF k = cur THEN ch
                                       ELSE IF k \in (cur + 1)..len THEN buf[k - 1] ELSE buf[k]],
                 len + 1, cur + 1, prev_len)
  /\ Means(InsertAt(text, pos + 1, ch), pos + 1)

LineNext ==
  \/ StartLine \/ Enter \/ Cancel \/ Backspace \/ Delete
  \/ Left \/ Right \/ Home \/ EndKey \/ Up \/ Down
  \/ \E ch \in Chars : Type(ch)

LineSpec == LineInit /\ [][LineNext]_lineVars

-----------------------------------------------------------------------------
(* Properties *)

LineTypeOK ==
  /\ len \in 0..(CAP - 1) /\ cur \in 0..len
  /\ hist_pos \in 0..hist_count /\ hist_count <= HIST_SLOTS

\* The lines the history should offer: the last ones worth keeping.
Newest(lines) == SubSeq(lines, Max({1, Len(lines) - HIST_SLOTS + 1}), Len(lines))
Kept == Newest(kept)

\* Through insertions, deletions and recalls at any place the buffer, moved
\* about in place, holds the line that the keys mean, and the caller gets
\* exactly that line; the history offers the last lines it returned, while
\* none was as long as a slot.
EditExact ==
  /\ epc = "edit" => Contents(buf, len) = text /\ cur = pos
  /\ epc = "idle" /\ submitted # <<>> => Contents(buf, strlen(buf)) = Last(submitted)
  /\ epc # "undefined" => history = Kept

\* line.c:43: "reprinting prompt+buffer re-renders the full line": the row
\* shows the line that is edited, and nothing else.
ScreenShowsLine ==
  epc = "edit" =>
    row = [k \in Columns |-> IF k < len THEN buf[k] ELSE Blank]
=============================================================================
