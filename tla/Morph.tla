--------------------------------- MODULE Morph ---------------------------------
(***************************************************************************)
(* core/runtime/app.js, morph: Element.Render (core/dom/dom_js.go)         *)
(* reconciles the children of an element to new markup while a user types  *)
(* into one of them and rows that were removed are still fading out.       *)
(*                                                                         *)
(* One level of children: morphNode does the same to the children of a     *)
(* node it keeps.  What an element says stands for its attributes, with    *)
(* the value attribute of a field among them.  The document, external, is  *)
(* modelled where it matters here: a field has a live value, which follows *)
(* its attribute until it is set or typed into, and a node that is taken   *)
(* out of the document, if only to be put in elsewhere, loses the focus.   *)
(***************************************************************************)
EXTENDS Integers, Sequences, SequencesExt

CONSTANTS
    Marks,     \* the items markup is made of: [key, kind, says]
    NoMark,    \* no key: neither data-key nor id
    Says,      \* what an item may say, and a user type
    MaxMarks,  \* bound: the items of one markup
    MaxNodes   \* bound: the nodes of the element, with those that fade

Sorts == {"text", "row", "field"}   \* a text node, an element, a field
None  == 0                          \* no place: no node has the focus, or a node is new

ASSUME MorphAssumption ==
    /\ \A m \in Marks : m.kind \in Sorts /\ m.says \in Says
    /\ \A m \in Marks : m.kind = "text" => m.key = NoMark
    /\ MaxMarks \in Nat /\ MaxNodes \in Nat

Markups == UNION {[1..n -> Marks] : n \in 0..MaxMarks}

VARIABLES
    animate,   \* the element has data-animate-rows
    kids,      \* its children
    markup,    \* the markup last rendered
    active,    \* the place of the node that has the focus
    actor      \* history: who made the last step

morphVars == <<animate, kids, markup, active, actor>>

\* was is history: the place the node had before the last step, if that was a repaint.
Node == [key : {m.key : m \in Marks}, kind : Sorts, says : Says,
         value : Says, dirty : BOOLEAN, leaving : BOOLEAN, was : 0..MaxNodes]

Item(n)   == [key |-> n.key, kind |-> n.kind, says |-> n.says]
Visible(ns) == SelectSeq(ns, LAMBDA n : ~n.leaving)
Since(ns) == [i \in DOMAIN ns |-> [ns[i] EXCEPT !.was = None]]

\* Every variable has its type, and no node of a repaint was two nodes, or is in two places.
MorphTypeOK ==
    /\ animate \in BOOLEAN
    /\ kids \in Seq(Node) /\ Len(kids) <= MaxNodes
    /\ markup \in Markups
    /\ active \in DOMAIN kids \cup {None}
    /\ actor \in {"render", "user", "browser"}
    /\ \A i, j \in DOMAIN kids : kids[i].was = kids[j].was /\ kids[i].was # None => i = j

MorphInit ==
    /\ animate \in BOOLEAN
    /\ kids = <<>> /\ markup = <<>> /\ active = None /\ actor = "render"

-----------------------------------------------------------------------------
(* morphChildren: kids is cut in what is before the cursor, placed, and     *)
(* what is from it on, rest.                                                *)

\* Mutant of Keyed: a row that fades is found by its key.
KeyedAll(ns, k) == {n \in ToSet(ns) : n.key = k}

\* The nodes a key finds: a leaving one is invisible to the diff.
Keyed(ns, k) == {n \in ToSet(ns) : n.key = k /\ ~n.leaving}

\* The first of them, or none; each is found once.
Find(ns, k, taken) ==
    SelectSeq(ns, LAMBDA n : n \in Keyed(ns, k) /\ k \notin taken)

\* The cursor passes over what is leaving.
Passed(s) ==
    LET stays(i) == ~s.rest[i].leaving
        n == CHOOSE i \in 0..Len(s.rest) :
                /\ \A j \in 1..i : ~stays(j)
                /\ i < Len(s.rest) => stays(i + 1)
    IN [s EXCEPT !.placed = @ \o SubSeq(s.rest, 1, n),
                 !.rest   = SubSeq(s.rest, n + 1, Len(s.rest))]

\* insertBefore of the template's own node.
Adopt(s, m) ==
    [s EXCEPT !.placed = Append(@, [key |-> m.key, kind |-> m.kind, says |-> m.says, was |-> None,
                                    value |-> m.says, dirty |-> FALSE, leaving |-> FALSE])]

\* morphNode and syncProps.  Setting the attribute moves the value of a field nobody has set;
\* then the value is set, unless it is that already or the field has the focus.
Morphed(n, m, focus) ==
    LET follows == IF n.dirty THEN n.value ELSE m.says
        sets    == n.kind = "field" /\ n.was # focus /\ follows # m.says
    IN [n EXCEPT !.says  = m.says,
                 !.value = IF n.kind # "field" \/ sets THEN m.says ELSE follows,
                 !.dirty = n.dirty \/ sets]

\* A match that is the cursor stays where it is; another is moved in front of the cursor, and
\* loses the focus before its value is synced.
Match(s, n, m) ==
    LET moved == n # Head(s.rest)
        focus == IF moved /\ s.focus = n.was THEN None ELSE s.focus
    IN [s EXCEPT !.focus  = focus,
                 !.taken  = @ \cup ({m.key} \ {NoMark}),
                 !.rest   = SelectSeq(@, LAMBDA r : r # n),
                 !.placed = Append(@, Morphed(n, m, focus))]

\* One incoming node.
Place(s0, m) ==
    LET s     == Passed(s0)
        found == Find(s.rest, m.key, s.taken)
    IN CASE m.key # NoMark /\ found # <<>> -> Match(s, Head(found), m)
         [] /\ m.key = NoMark /\ s.rest # <<>>
            /\ Head(s.rest).key = NoMark /\ Head(s.rest).kind = m.kind -> Match(s, Head(s.rest), m)
         [] OTHER -> Adopt(s, m)

\* What is left over is removed, and an element of an animated list fades first.
LeftOver(rest) ==
    [i \in DOMAIN rest |-> [rest[i] EXCEPT !.leaving = @ \/ (animate /\ rest[i].kind # "text")]]

Reconciled(m) ==
    LET start == [placed |-> <<>>, rest |-> [i \in DOMAIN kids |-> [kids[i] EXCEPT !.was = i]],
                  taken |-> {}, focus |-> active]
        done  == FoldLeft(Place, start, m)
        after == done.placed \o SelectSeq(LeftOver(done.rest), LAMBDA n : n.leaving)
        still == {i \in DOMAIN after : after[i].was = done.focus /\ done.focus # None}
    IN [kids |-> after, active |-> IF still = {} THEN None ELSE CHOOSE i \in still : TRUE]

Repaint(m) ==
    LET r == Reconciled(m) IN
    /\ Len(r.kids) <= MaxNodes
    /\ kids' = r.kids /\ active' = r.active
    /\ markup' = m /\ actor' = "render"
    /\ UNCHANGED animate

-----------------------------------------------------------------------------
(* The user and the browser.                                                *)

Focuses(i) ==
    /\ i # active
    /\ i # None => kids[i].kind = "field"
    /\ active' = i /\ kids' = Since(kids)
    /\ actor' = "user"
    /\ UNCHANGED <<animate, markup>>

Types(v) ==
    /\ active # None /\ kids[active].value # v
    /\ kids' = Since([kids EXCEPT ![active].value = v, ![active].dirty = TRUE])
    /\ actor' = "user"
    /\ UNCHANGED <<animate, markup, active>>

\* leave: the transition of a row has ended, or its 400ms.
Gone(i) ==
    /\ kids[i].leaving
    /\ kids' = Since(RemoveAt(kids, i))
    /\ active' = CASE active = i -> None [] active > i -> active - 1 [] OTHER -> active
    /\ actor' = "browser"
    /\ UNCHANGED <<animate, markup>>

MorphNext ==
    \/ \E m \in Markups : Repaint(m)
    \/ \E i \in DOMAIN kids \cup {None} : Focuses(i)
    \/ \E v \in Says : Types(v)
    \/ \E i \in DOMAIN kids : Gone(i)

MorphSpec == MorphInit /\ [][MorphNext]_morphVars

-----------------------------------------------------------------------------
(* Properties.                                                              *)

\* What is visible is the markup: the same nodes in the same order, saying the same.
ShowsMarkup ==
    LET shown == Visible(kids)'
    IN Len(shown) = Len(markup') /\ \A i \in DOMAIN shown : Item(shown[i]) = markup'[i]

\* A field without the focus has the value its markup says, whatever was typed into it before.
FieldsShowMarkup ==
    \A i \in DOMAIN kids' :
        kids'[i].kind = "field" /\ ~kids'[i].leaving /\ i # active' => kids'[i].value = kids'[i].says

\* Where the node at a place is after a repaint.
Now(i) == {j \in DOMAIN kids' : kids'[j].was = i}

\* The node a key names stays that node, on view, while the key stays in the markup.
KeyedNodesStay ==
    \A i \in DOMAIN kids :
        LET k == kids[i].key IN
        /\ k # NoMark /\ ~kids[i].leaving
        /\ \A j \in 1..(i - 1) : kids[j].key = k => kids[j].leaving
        /\ \E j \in DOMAIN markup' : markup'[j].key = k
        => \E j \in Now(i) : ~kids'[j].leaving

\* A row that fades is left to fade, and in an animated list no element goes without fading.
FadingIsLeftAlone ==
    \A i \in DOMAIN kids :
        /\ kids[i].leaving => \E j \in Now(i) : kids'[j] = [kids[i] EXCEPT !.was = i]
        /\ animate /\ kids[i].kind # "text" => Now(i) # {}

\* The focused field keeps the focus, and what was typed into it, as long as the markup begins
\* as what is shown did, up to and with that field.
FocusIsKeptInPlace ==
    LET before == Visible(SubSeq(kids, 1, active))
        keys   == {before[j].key : j \in DOMAIN before} \ {NoMark}
    IN
    /\ active # None /\ ~kids[active].leaving /\ Len(before) <= Len(markup')
    /\ \A j \in DOMAIN before : before[j].key = markup'[j].key /\ before[j].kind = markup'[j].kind
    /\ \A j, h \in DOMAIN before : before[j].key \in keys /\ before[j].key = before[h].key => j = h
    => /\ active' # None /\ kids'[active'].was = active
       /\ kids[active].dirty => kids'[active'].value = kids[active].value

\* A repaint shows the markup and keeps what it promises to keep (core/dom/dom_js.go:147).
RepaintsAreExact ==
    [][actor' = "render" =>
          ShowsMarkup /\ FieldsShowMarkup /\ KeyedNodesStay /\ FadingIsLeftAlone
          /\ FocusIsKeptInPlace]_morphVars

\* "the field being typed into keeps its value and its focus" (core/dom/dom_js.go:149), when
\* the repaint keeps its node.
TypingIsKept ==
    [][actor' = "render" /\ active # None /\ kids[active].dirty =>
          \A j \in Now(active) : ~kids'[j].leaving =>
             active' = j /\ kids'[j].value = kids[active].value]_morphVars
=============================================================================
