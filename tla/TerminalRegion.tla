----------------------------- MODULE TerminalRegion -----------------------------
(***************************************************************************)
(* The region of its screen that a terminal tells the sharing server of.   *)
(* The output of the programs arrives in batches; each one runs as a task  *)
(* of the JavaFX thread (Terminal.atualiza), moves the cursor, changes     *)
(* cells and widens the rectangle r by alteraRegiao, and at the end        *)
(* Compartilhamento.atualiza sends the cells of r.  During the automatic   *)
(* login a batch returns before that.  A batch that shows the menu or the  *)
(* choice of a branch waits in showAndWait, where the JavaFX thread goes   *)
(* on running later batches: they use the same r.                          *)
(*                                                                         *)
(* Lines are 0 .. Lines - 1, columns 0 .. Cols - 1.  The contents of a     *)
(* cell are left out: what counts is whether it changed since it was sent. *)
(***************************************************************************)
EXTENDS Naturals, Integers, Sequences, SequencesExt

CONSTANTS
    Lines, Cols,
    Steps,      \* the distances that the cursor keys' sequences move by
    MaxOps,     \* operations in one batch
    MaxWaiting  \* batches that wait in showAndWait

ASSUME RegionSize ==
    /\ Lines \in Nat \ {0} /\ Cols \in Nat \ {0}
    /\ Steps \subseteq Nat \ {0} /\ MaxOps \in Nat /\ MaxWaiting \in Nat

VARIABLES
    lin, col,       \* the cursor: it may leave the screen by one
    r,              \* the rectangle: x, y, width, height
    estadoLogin,    \* AGUARDANDO_PROMPT, AGUARDANDO_RESPOSTA, OK
    menu,           \* the field menu is not null
    pc,             \* idle, parse, close, login, verify, send
    waiting,        \* where the batches in showAndWait go on
    ops,            \* operations this batch may still have
    stale,          \* history: cells changed since they were last sent
    up, past,       \* history: r was asked for a line above it, a column off the screen
    excused         \* history: cells that the code is known to leave unsent

cursor == <<lin, col>>
region == <<r, up, past>>
vars == <<cursor, region, estadoLogin, menu, pc, waiting, ops, stale, excused>>

Cells == (0 .. Lines - 1) \X (0 .. Cols - 1)
ToEnd(l, c) == {p \in Cells : p[1] = l /\ p[2] >= c}
Whole == [x |-> 0, y |-> 0, width |-> Cols, height |-> Lines]

Init ==
    /\ lin = 0 /\ col = 0
    /\ r = Whole /\ up = FALSE /\ past = FALSE
    /\ estadoLogin \in {"AGUARDANDO_PROMPT", "OK"}
    /\ menu = FALSE
    /\ pc = "idle" /\ waiting = <<>> /\ ops = 0
    /\ stale = {} /\ excused = {}

-----------------------------------------------------------------------------
(* The rectangle.  Above its top it grows to the side. *)

\* Mutant: a width one too small.
WidenX_Short(q, x) ==
    LET left == IF x < q.x THEN [q EXCEPT !.x = x, !.width = @ + q.x - x] ELSE q
    IN  IF x >= left.x + left.width THEN [left EXCEPT !.width = x - left.x] ELSE left

WidenX(q, x) ==
    LET left == IF x < q.x THEN [q EXCEPT !.x = x, !.width = @ + q.x - x] ELSE q
    IN  IF x >= left.x + left.width THEN [left EXCEPT !.width = x - left.x + 1] ELSE left

WidenY(q, y) ==
    LET top == IF y < q.y THEN [q EXCEPT !.y = y, !.width = @ + q.y - y] ELSE q
    IN  IF y >= top.y + top.height THEN [top EXCEPT !.height = y - top.y + 1] ELSE top

\* alteraRegiao(x, y): -1 leaves that side alone, and (-1, -1) is the screen.
alteraRegiao(q, x, y) ==
    IF x = -1 /\ y = -1 THEN Whole
    ELSE LET wide == IF x = -1 THEN q ELSE WidenX(q, x)
         IN  IF y = -1 THEN wide ELSE WidenY(wide, y)

Mark(x, y) ==
    /\ r' = alteraRegiao(r, x, y)
    /\ up' = (up \/ y \in 0 .. r.y - 1)
    /\ past' = (past \/ x >= Cols)
    /\ UNCHANGED excused

MarkAll ==
    /\ r' = alteraRegiao(r, -1, -1)
    /\ up' = FALSE /\ past' = FALSE
    /\ excused' = {}

-----------------------------------------------------------------------------
(* A batch.  It ends by the send, by a return or by an exception; in the   *)
(* last two cases its region is lost.                                      *)

\* The task polls the queue and starts with the cursor's cell.
Begin ==
    /\ pc = "idle"
    /\ r' = [x |-> col, y |-> lin, width |-> 1, height |-> 1]
    /\ up' = FALSE /\ past' = (col >= Cols)
    /\ pc' = "parse" /\ ops' = MaxOps
    /\ excused' = IF waiting = <<>> THEN excused ELSE excused \cup stale
    /\ UNCHANGED <<cursor, estadoLogin, menu, waiting, stale>>

Return ==
    /\ pc' = "idle" /\ ops' = 0
    /\ excused' = excused \cup stale

\* The JavaFX thread reports an index out of bounds and drops the task.
Throws == Return /\ UNCHANGED <<region, stale>>

Op ==
    /\ pc = "parse" /\ ops > 0
    /\ UNCHANGED <<estadoLogin, menu, waiting>>

Parsed == ops' = ops - 1 /\ UNCHANGED pc
Changes(S) == stale' = stale \cup S

\* '\r'
Retorno ==
    /\ Op /\ Parsed
    /\ col' = 0 /\ Mark(0, -1)
    /\ UNCHANGED <<lin, stale>>

\* '\n': on the last line, or below it, the columns from the cursor on scroll.
Linha ==
    /\ Op /\ Parsed
    /\ \/ /\ lin < Lines - 1
          /\ lin' = lin + 1 /\ Mark(-1, lin + 1)
          /\ UNCHANGED stale
       \/ /\ lin >= Lines - 1
          /\ Changes({p \in Cells : p[2] >= col}) /\ MarkAll
          /\ UNCHANGED lin
    /\ UNCHANGED col

\* '\b': the column moves before the cell is written.
Apaga ==
    /\ Op /\ col > 0
    /\ col' = col - 1
    /\ \/ <<lin, col - 1>> \in Cells /\ Parsed /\ Changes({<<lin, col - 1>>}) /\ Mark(col - 1, -1)
       \/ <<lin, col - 1>> \notin Cells /\ Throws
    /\ UNCHANGED lin

\* A character.  After the last column the cursor takes the next line, which the
\* screen may not have: only '\n' scrolls.
Escreve ==
    /\ Op
    /\ \/ /\ <<lin, col>> \notin Cells /\ Throws /\ UNCHANGED cursor
       \/ /\ <<lin, col>> \in Cells /\ Parsed /\ Changes({<<lin, col>>})
          /\ \/ /\ col < Cols - 1
                /\ col' = col + 1 /\ Mark(col + 1, -1)
                /\ UNCHANGED lin
             \/ /\ col >= Cols - 1
                /\ col' = 0 /\ lin' = lin + 1 /\ Mark(0, lin + 1)

cursorUp(n) ==
    /\ Op /\ Parsed /\ lin > 0
    /\ lin' = IF lin >= n THEN lin - n ELSE 0
    /\ Mark(-1, lin')
    /\ UNCHANGED <<col, stale>>

\* Bound: the cursor leaves the screen by one line or one column at most.
cursorDown(n) ==
    /\ Op /\ Parsed /\ lin < Lines - 1 /\ lin + n <= Lines
    /\ lin' = lin + n
    /\ Mark(-1, lin')
    /\ UNCHANGED <<col, stale>>

cursorBackward(n) ==
    /\ Op /\ Parsed
    /\ col' = IF col >= n THEN col - n ELSE 0
    /\ Mark(col', -1)
    /\ UNCHANGED <<lin, stale>>

cursorForward(n) ==
    /\ Op /\ Parsed /\ col + n <= Cols
    /\ col' = col + n
    /\ Mark(col', -1)
    /\ UNCHANGED <<lin, stale>>

home ==
    /\ Op /\ Parsed
    /\ lin' \in 0 .. Lines /\ col' \in 0 .. Cols
    /\ MarkAll
    /\ UNCHANGED stale

\* To the end of the screen.  The column marked is the one before home.
clear ==
    /\ Op
    /\ \/ lin >= Lines /\ col < Cols /\ Throws
       \/ /\ lin < Lines \/ col >= Cols
          /\ Parsed
          /\ Changes(ToEnd(lin, col) \cup {p \in Cells : p[1] > lin})
          /\ LET x1 == IF lin < Lines - 1 THEN 0 ELSE col
             IN  /\ r' = alteraRegiao(alteraRegiao(r, x1, -1), Cols - 1, Lines - 1)
                 /\ up' = (up \/ Lines - 1 < r.y)
                 /\ past' = (past \/ x1 >= Cols)
          /\ UNCHANGED excused
    /\ UNCHANGED cursor

\* Parameter "2": home comes first.
clearAll ==
    /\ Op /\ Parsed
    /\ lin' = 0 /\ col' = 0
    /\ Changes(Cells)
    /\ LET x1 == IF Lines > 1 THEN 0 ELSE col
       IN  /\ r' = alteraRegiao(alteraRegiao(Whole, x1, -1), Cols - 1, Lines - 1)
           /\ up' = FALSE /\ past' = (x1 >= Cols)
           /\ excused' = {}

el ==
    /\ Op
    /\ \/ lin >= Lines /\ col < Cols /\ Throws
       \/ /\ lin < Lines \/ col >= Cols
          /\ Parsed /\ Changes(ToEnd(lin, col)) /\ Mark(Cols - 1, -1)
    /\ UNCHANGED cursor

-----------------------------------------------------------------------------
(* The end of a batch. *)

Wait(next) ==
    /\ Len(waiting) < MaxWaiting
    /\ waiting' = Append(waiting, next)
    /\ pc' = "idle" /\ ops' = 0
    /\ UNCHANGED <<cursor, region, stale, excused>>

\* With montarMenu the menu is shown first.
EndParse ==
    /\ pc = "parse"
    /\ \/ pc' = "close" /\ ops' = 0 /\ UNCHANGED <<menu, waiting, cursor, region, stale, excused>>
       \/ ~menu /\ menu' = TRUE /\ Wait("close")
    /\ UNCHANGED estadoLogin

\* A marker in the menu's columns closes it: the login is over, the screen due.
FechaMenu ==
    /\ pc = "close" /\ menu
    /\ menu' = FALSE /\ estadoLogin' = "OK" /\ MarkAll
    /\ pc' = "login"
    /\ UNCHANGED <<cursor, waiting, ops, stale>>

NoMarker ==
    /\ pc = "close" /\ pc' = "login"
    /\ UNCHANGED <<cursor, region, estadoLogin, menu, waiting, ops, stale, excused>>

\* The prompt may have come: user and password are sent.
AguardaPrompt ==
    /\ pc = "login" /\ estadoLogin = "AGUARDANDO_PROMPT"
    /\ estadoLogin' \in {"AGUARDANDO_PROMPT", "AGUARDANDO_RESPOSTA"}
    /\ Return
    /\ UNCHANGED <<cursor, region, menu, waiting, stale>>

\* The answer may show the main menu, or the choice of a branch.
AguardaResposta ==
    /\ pc = "login" /\ estadoLogin = "AGUARDANDO_RESPOSTA"
    /\ \/ Return /\ UNCHANGED <<menu, waiting, cursor, region, stale>>
       \/ ~menu /\ menu' = TRUE /\ Wait("return")
       \/ UNCHANGED menu /\ Wait("return")
    /\ UNCHANGED estadoLogin

Verifica ==
    /\ pc = "login" /\ estadoLogin = "OK"
    /\ \/ pc' = "send" /\ UNCHANGED <<menu, waiting, ops, cursor, region, stale, excused>>
       \/ ~menu /\ menu' = TRUE /\ Wait("send")
       \/ UNCHANGED menu /\ Wait("send")
    /\ UNCHANGED estadoLogin

\* showAndWait returns, the innermost one first; the field menu stays.  After
\* "encerrar" the batch that had montarMenu returns.
Resume ==
    /\ pc = "idle" /\ waiting # <<>>
    /\ waiting' = Front(waiting)
    /\ \/ Last(waiting) # "return" /\ pc' = Last(waiting) /\ UNCHANGED <<ops, excused>>
       \/ /\ Last(waiting) = "return" \/ (Last(waiting) = "close" /\ menu)
          /\ Return
    /\ UNCHANGED <<cursor, region, estadoLogin, menu, stale>>

\* A function key's button closes the menu, between two batches.  (The mouse over
\* an inner menu also widens r there, but not while a batch waits: the windows of
\* showAndWait are modal.)
Botao ==
    /\ pc = "idle"
    /\ menu' = FALSE /\ estadoLogin' = "OK"
    /\ r' = alteraRegiao(r, -1, -1) /\ up' = FALSE /\ past' = FALSE
    /\ UNCHANGED <<cursor, pc, waiting, ops, stale, excused>>

\* Compartilhamento.atualiza: line by line.  A column off the screen is found at
\* the first line, a line off the screen after the ones before it were sent.
Sent ==
    IF r.x + r.width > Cols THEN {}
    ELSE {p \in Cells : /\ p[1] \in r.y .. r.y + r.height - 1
                        /\ p[2] \in r.x .. r.x + r.width - 1}

atualiza ==
    /\ pc = "send"
    /\ stale' = stale \ Sent
    /\ excused' = IF up \/ past THEN stale' ELSE excused \cap stale'
    /\ pc' = "idle" /\ ops' = 0
    /\ UNCHANGED <<cursor, region, estadoLogin, menu, waiting>>

Parse ==
    \/ Retorno \/ Linha \/ Apaga \/ Escreve
    \/ home \/ clear \/ clearAll \/ el
    \/ \E n \in Steps :
           cursorUp(n) \/ cursorDown(n) \/ cursorBackward(n) \/ cursorForward(n)

Next ==
    \/ Begin \/ Parse \/ EndParse \/ FechaMenu \/ NoMarker
    \/ AguardaPrompt \/ AguardaResposta \/ Verifica \/ Resume \/ Botao \/ atualiza

Spec == Init /\ [][Next]_vars

-----------------------------------------------------------------------------
(***************************************************************************)
(* Between batches every cell that changed has been sent, but for those    *)
(* of batches that returned during the login or threw, whose region was    *)
(* overwritten while they waited in showAndWait, or whose region was asked *)
(* for a line above its top (alteraRegiao widens it instead) or a column   *)
(* off the screen.  These cells too are sent by the next batch that marks  *)
(* the whole screen (home, a scroll, the end of the menu and of the login) *)
(* and comes to its end.                                                   *)
(***************************************************************************)
ScreenSent == pc = "idle" /\ waiting = <<>> => stale \subseteq excused

=============================================================================
