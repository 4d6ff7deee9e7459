------------------------------ MODULE TextField ------------------------------
(***************************************************************************)
(* useCollaborativeText (packages/hooks-core/src/create-text-hooks): an    *)
(* input element and the Loro text it edits.  The hook handles what the    *)
(* user types itself, sees changes from elsewhere (peers, undo, other      *)
(* hooks) through a subscription that an effect makes after the element    *)
(* has mounted, and leaves the element to the browser while the user       *)
(* composes characters.  A text is a sequence of characters that are told  *)
(* apart: those of the beginning and those that came since, by number.     *)
(***************************************************************************)
EXTENDS Integers, Sequences, SequencesExt

CONSTANTS
  Text0,    \* what the text has at first
  MaxChars, \* bound: characters that ever are
  Keys,     \* input types of the keyboard
  Risks     \* what may happen: "early" changes, "removed" while composing,
            \* changes "during" a composition

TextFieldAssumption ==
  /\ Text0 \in Seq(1 .. MaxChars) /\ Text0 = [i \in DOMAIN Text0 |-> i]
  /\ Risks \subseteq {"early", "removed", "during"}

VARIABLES
  text,       \* the Loro text
  chars,      \* how many characters there were
  mounted, subscribed,
  value, sel, \* the element: what it shows, the selection <<start, end>>
  ime,        \* the browser composes
  known,      \* lastKnownValueRef
  composing   \* isComposingRef

vars == <<text, chars, mounted, subscribed, value, sel, ime, known, composing>>

Between(low, n, high) == IF n < low THEN low ELSE IF n > high THEN high ELSE n
LesserOf(m, n) == IF m < n THEN m ELSE n
GreaterOf(m, n) == IF m > n THEN m ELSE n

Without(t, start, end) == SubSeq(t, 1, start) \o SubSeq(t, end + 1, Len(t))
With(t, start, new) == SubSeq(t, 1, start) \o new \o SubSeq(t, start + 1, Len(t))
Fresh(n) == [i \in 1 .. n |-> chars + i]

-----------------------------------------------------------------------------
(* What the handlers of input types make of the text; of a place past its  *)
(* end Loro throws.                                                        *)
HandleInsertText(start, end, data) == With(Without(text, start, end), start, data)
HandleInsertLineBreak(start, end) == HandleInsertText(start, end, Fresh(1))
HandleDeleteBackward(start, end) ==
  Without(text, IF start = end THEN GreaterOf(0, start - 1) ELSE start, end)
HandleDeleteForward(start, end) ==
  IF start = end /\ start < Len(value) THEN Without(text, start, start + 1)
                                       ELSE Without(text, start, end)
HandleDeleteSelection(start, end) == Without(text, start, end)
(* getTargetRanges: the range that the browser means, or none.             *)
HandleDeleteByRange(start, end, range) ==
  IF range # <<>> THEN Without(text, range[1], range[2]) ELSE Without(text, start, end)

Handled(key, start, end, data, range) ==
  CASE key = "insertText"            -> HandleInsertText(start, end, data)
    [] key = "insertLineBreak"       -> HandleInsertLineBreak(start, end)
    [] key = "deleteContentBackward" -> HandleDeleteBackward(start, end)
    [] key = "deleteContentForward"  -> HandleDeleteForward(start, end)
    [] key = "deleteByCut"           -> HandleDeleteSelection(start, end)
    [] key = "deleteWord"            -> HandleDeleteByRange(start, end, range)
    [] OTHER                         -> text
Deletes(key) ==
  key \in {"deleteContentBackward", "deleteContentForward", "deleteByCut", "deleteWord"}

CalculateNewCursor(key, start, end, data, maxLength) ==
  LesserOf(maxLength,
      IF Deletes(key) THEN IF start # end THEN start ELSE GreaterOf(0, start - 1)
      ELSE start + IF data = <<>> THEN 1 ELSE Len(data))

(* A delta: what to retain, delete and insert, in order.                   *)
Op(kind, n) == [kind |-> kind, n |-> n]
Walk(step(_, _), delta, first) == FoldLeft(step, first, delta)

AdjustCursorFromDelta(cursor, delta) ==
  LET step(acc, op) ==
        CASE op.kind = "retain" -> [acc EXCEPT !.old = @ + op.n]
          [] op.kind = "insert" ->
               [acc EXCEPT !.by = IF acc.old <= cursor THEN @ + op.n ELSE @]
          [] op.kind = "delete" ->
               [old |-> acc.old + op.n,
                by  |-> IF acc.old + op.n <= cursor THEN acc.by - op.n
                        ELSE IF acc.old < cursor THEN acc.by - (cursor - acc.old)
                        ELSE acc.by]
  IN GreaterOf(0, cursor + Walk(step, delta, [old |-> 0, by |-> 0]).by)

(* What Loro makes of the text with that delta.                            *)
Patched(delta) ==
  LET step(acc, op) ==
        CASE op.kind = "retain" -> [acc EXCEPT !.at = @ + op.n]
          [] op.kind = "insert" -> [at |-> acc.at + op.n, t |-> With(acc.t, acc.at, Fresh(op.n))]
          [] op.kind = "delete" -> [acc EXCEPT !.t = Without(@, acc.at, acc.at + op.n)]
  IN Walk(step, delta, [at |-> 0, t |-> text]).t

(* Changes of one or two places, one character inserted.                   *)
Deltas ==
  LET n == Len(text)
      dels == {<<Op("retain", i), Op("delete", d)>> : i \in 0 .. n, d \in 1 .. n}
      ins == {<<Op("retain", i), Op("insert", 1)>> : i \in 0 .. n}
  IN {d \in ins \cup dels
            \cup {<<Op("retain", i), Op("insert", 1), Op("delete", k)>> :
                    i \in 0 .. n, k \in 1 .. n}
            \cup {d \o s : d \in dels, s \in ins} :
        FoldLeft(LAMBDA acc, op : acc + IF op.kind = "insert" THEN 0 ELSE op.n, 0, d) <= n}
Inserted(delta) == FoldLeft(LAMBDA acc, op : acc + IF op.kind = "insert" THEN op.n ELSE 0, 0, delta)

-----------------------------------------------------------------------------
Init ==
  /\ text = Text0 /\ chars = Len(Text0)
  /\ mounted = FALSE /\ subscribed = FALSE
  /\ value = <<>> /\ sel = <<0, 0>> /\ ime = FALSE
  /\ known = text /\ composing = FALSE

(* setInputRef with an element, which takes the text; the effect.          *)
Mount ==
  /\ ~ mounted
  /\ mounted' = TRUE
  /\ value' = text /\ known' = text
  /\ sel' = <<Len(text), Len(text)>>
  /\ UNCHANGED <<text, chars, subscribed, ime, composing>>

Subscribe ==
  /\ mounted /\ ~ subscribed
  /\ subscribed' = TRUE
  /\ UNCHANGED <<text, chars, mounted, value, sel, ime, known, composing>>

(* The element goes, its listeners with it; what the hook knows stays.     *)
Unmount ==
  /\ mounted /\ subscribed
  /\ ime => "removed" \in Risks
  /\ mounted' = FALSE /\ subscribed' = FALSE /\ ime' = FALSE
  /\ value' = <<>> /\ sel' = <<0, 0>>
  /\ UNCHANGED <<text, chars, known, composing>>

Select(start, end) ==
  /\ mounted /\ ~ ime /\ sel # <<start, end>>
  /\ sel' = <<start, end>>
  /\ UNCHANGED <<text, chars, mounted, subscribed, value, ime, known, composing>>

(* beforeinput: the hook edits the text, shows it and places the cursor.   *)
(* The application may refuse the change (onBeforeChange).                 *)
HandleBeforeInput(key, data, range, allowed) ==
  LET start == Between(0, sel[1], Len(text))
      end   == Between(0, sel[2], Len(text))
      t     == Handled(key, start, end, data, range)
      at    == CalculateNewCursor(key, start, end, data, Len(t))
  IN /\ mounted /\ ~ ime /\ ~ composing
     /\ range # <<>> => range[2] <= Len(text)
     /\ IF allowed
          THEN /\ text' = t /\ known' = t /\ value' = t
               /\ sel' = <<at, at>>
               /\ chars' = chars + IF key = "insertLineBreak" THEN 1 ELSE Len(data)
          ELSE UNCHANGED <<text, known, value, sel, chars>>
     /\ chars' <= MaxChars
     /\ UNCHANGED <<mounted, subscribed, ime, composing>>

(* While the hook takes itself to compose, the browser edits the element.  *)
NativeInput ==
  /\ mounted /\ composing /\ chars < MaxChars
  /\ value' = With(Without(value, sel[1], sel[2]), sel[1], Fresh(1))
  /\ chars' = chars + 1
  /\ sel' = <<sel[1] + 1, sel[1] + 1>>
  /\ UNCHANGED <<text, mounted, subscribed, ime, known, composing>>

HandleCompositionStart ==
  /\ mounted /\ ~ ime
  /\ ime' = TRUE /\ composing' = TRUE
  /\ UNCHANGED <<text, chars, mounted, subscribed, value, sel, known>>

(* The text becomes what the element has, or the element what it had.      *)
HandleCompositionEnd(allowed) ==
  /\ ime
  /\ ime' = FALSE /\ composing' = FALSE
  /\ IF value = known THEN UNCHANGED <<text, known, value, sel>>
     ELSE IF allowed
       THEN text' = value /\ known' = value /\ UNCHANGED <<value, sel>>
       ELSE value' = known /\ sel' = <<Len(known), Len(known)>> /\ UNCHANGED <<text, known>>
  /\ UNCHANGED <<chars, mounted, subscribed>>

(* A change from elsewhere; the subscription shows it and moves the        *)
(* selection along.                                                        *)
Elsewhere(delta) ==
  LET t == Patched(delta)
      Moved(at) == Between(0, AdjustCursorFromDelta(at, delta), Len(t))
  IN /\ mounted /\ ~ subscribed => "early" \in Risks
     /\ ime => "during" \in Risks
     /\ chars + Inserted(delta) <= MaxChars
     /\ text' = t /\ chars' = chars + Inserted(delta)
     /\ IF mounted /\ subscribed /\ t # known
          THEN value' = t /\ known' = t /\ sel' = <<Moved(sel[1]), Moved(sel[2])>>
          ELSE UNCHANGED <<value, known, sel>>
     /\ UNCHANGED <<mounted, subscribed, ime, composing>>

(* The range of a word or line key is what is selected, or characters up   *)
(* to the caret or from there.                                             *)
Ranges ==
  {<<>>} \cup IF sel[1] # sel[2] THEN {sel}
            ELSE {<<i, sel[1]>> : i \in 0 .. sel[1] - 1}
                   \cup {<<sel[1], i>> : i \in sel[1] + 1 .. Len(value)}

Input(key) ==
  \E n \in 0 .. 2, allowed \in BOOLEAN, range \in Ranges :
    /\ n > 0 <=> key = "insertText"
    /\ range # <<>> => key = "deleteWord"
    /\ HandleBeforeInput(key, Fresh(n), range, allowed)
BeforeInput == \E key \in Keys : Input(key)

Next ==
  \/ Mount \/ Subscribe \/ Unmount
  \/ \E start, end \in 0 .. Len(value) : start <= end /\ Select(start, end)
  \/ BeforeInput
  \/ HandleCompositionStart \/ NativeInput
  \/ \E allowed \in BOOLEAN : HandleCompositionEnd(allowed)
  \/ \E delta \in Deltas : Elsewhere(delta)

Spec == Init /\ [][Next]_vars

-----------------------------------------------------------------------------
(* Once its effect has run the element shows the text, but for what the    *)
(* user is composing, whatever came from elsewhere and however often the   *)
(* element went and came back.                                             *)
InputShowsText == mounted /\ subscribed /\ ~ ime => value = text /\ known = text

(* Changes of the text leave each end of the selection between the same    *)
(* characters: what was left of it and is still there is left of it, what  *)
(* was right of it is right of it.  Not so when a key deletes at the caret *)
(* anything but the one character before it: every such key moves the      *)
(* caret back by one (input-handlers.ts:154).                              *)
Sides(at, new) ==
  /\ \A i \in 1 .. at : \A j \in DOMAIN text' : text'[j] = text[i] => j <= new
  /\ \A i \in at + 1 .. Len(text) : \A j \in DOMAIN text' : text'[j] = text[i] => j > new
OtherDeletion ==
  /\ sel[1] = sel[2] /\ text' # Without(text, sel[1] - 1, sel[1])
  /\ \E key \in Keys : Deletes(key) /\ Input(key)
CaretStays ==
  [][mounted /\ subscribed /\ ~ ime /\ text' # text =>
       \/ Sides(sel[1], sel'[1]) /\ Sides(sel[2], sel'[2])
       \/ OtherDeletion]_vars
=============================================================================
