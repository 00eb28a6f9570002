------------------------- MODULE HTMLOptGroupElement -------------------------
(***************************************************************************)
(* HTMLOptGroupElement.cpp: an optgroup tells the select it belongs to     *)
(* that the list the select shows is out of date, whenever its children or *)
(* its attributes change, and asks for a new style when it is disabled or  *)
(* enabled.  The select may be any number of elements above it.            *)
(*                                                                         *)
(* The document is a forest given by the parent of every node.  The select *)
(* keeps the list it shows and the flag that says the list has to be made  *)
(* again; it is not part of this file, and is modelled as far as the       *)
(* optgroup talks to it.  A call of the DOM runs to its end, callbacks     *)
(* included, before the script goes on: each is one step.                  *)
(***************************************************************************)
EXTENDS Integers, Sequences, FiniteSets, SequencesExt

CONSTANTS Nodes,      \* the elements there are
          Selects,    \* those that are select elements
          OptGroups,  \* those that are optgroup elements
          Options,    \* those that are option elements; the rest are others
          Labels,     \* the values scripts give the label attribute
          NoNode      \* a null pointer

Space == " "

ASSUME /\ Selects \cup OptGroups \cup Options \subseteq Nodes
       /\ Cardinality(Selects) + Cardinality(OptGroups) + Cardinality(Options)
              = Cardinality(Selects \cup OptGroups \cup Options)
       /\ NoNode \notin Nodes
       /\ Labels \subseteq Seq(STRING)

VARIABLES created,                \* the optgroups create has made
          parent,                 \* parent[n]: parentNode(), or NoNode
          label,                  \* label[g]: the label attribute of an optgroup
          disabled,               \* disabled[g]: whether it has the attribute disabled
          needsStyleRecalc,       \* needsStyleRecalc[g]: a new style was asked for
          styledDisabled,         \* styledDisabled[g]: disabled, as its style saw it
          shouldRecalcListItems,  \* per select: the list is out of date
          listItems,              \* per select: the list it shows
          focused                 \* per select: focused()

vars == <<created, parent, label, disabled, needsStyleRecalc, styledDisabled,
          shouldRecalcListItems, listItems, focused>>

-----------------------------------------------------------------------------
(* The optgroup. *)

\* The loop of recalcSelectOptions and of ownerSelectElement: up from a
\* node to the first select, or to the end of the chain.
RECURSIVE firstSelectFrom(_, _)
firstSelectFrom(tree, node) ==
    IF node = NoNode \/ node \in Selects THEN node
    ELSE firstSelectFrom(tree, tree[node])

\* HTMLOptGroupElement::create and the constructor: a new optgroup, in no
\* tree and without attributes.
create(g) ==
    /\ g \notin created
    /\ created' = created \cup {g}
    /\ UNCHANGED <<parent, label, disabled, needsStyleRecalc, styledDisabled,
                   shouldRecalcListItems, listItems, focused>>

ownerSelectElement(g) == firstSelectFrom(parent, parent[g])

isDisabledFormControl(g) == disabled[g]

\* String::stripWhiteSpace and String::simplifyWhiteSpace.
stripWhiteSpace(text) ==
    LET inked == {i \in DOMAIN text : text[i] # Space}
    IN  IF inked = {} THEN << >> ELSE SubSeq(text, Min(inked), Max(inked))

simplifyWhiteSpace(text) ==
    FoldLeft(LAMBDA simplified, character :
                 IF character = Space /\ Last(simplified) = Space THEN simplified
                 ELSE Append(simplified, character),
             << >>, stripWhiteSpace(text))

\* A fault: the label is shown as the attribute has it.
groupLabelTextRaw(g) == label[g]

groupLabelText(g) == simplifyWhiteSpace(stripWhiteSpace(label[g]))

\* HTMLSelectElement::setRecalcListItems, on the flags of the selects.
setRecalcListItems(recalc, select) == [recalc EXCEPT ![select] = TRUE]

\* A fault: only the parent is asked whether it is the select.
recalcSelectOptionsOfParent(tree, g, recalc) ==
    IF tree[g] \in Selects THEN setRecalcListItems(recalc, tree[g]) ELSE recalc

\* recalcSelectOptions in the document tree: the flags afterwards.
recalcSelectOptions(tree, g, recalc) ==
    LET select == firstSelectFrom(tree, tree[g])
    IN  IF select # NoNode THEN setRecalcListItems(recalc, select) ELSE recalc

\* HTMLOptGroupElement::childrenChanged, called with the tree as it is after
\* the change.
childrenChanged(tree, g, recalc) == recalcSelectOptions(tree, g, recalc)

\* A fault: a new style is asked for when the label changes.
parseAttributeStyleOnLabel(g, name) ==
    /\ shouldRecalcListItems' = recalcSelectOptions(parent, g, shouldRecalcListItems)
    /\ needsStyleRecalc' = [needsStyleRecalc EXCEPT ![g] = @ \/ name = "label"]

\* HTMLOptGroupElement::parseAttribute, called after the attribute changed.
parseAttribute(g, name) ==
    /\ shouldRecalcListItems' = recalcSelectOptions(parent, g, shouldRecalcListItems)
    /\ needsStyleRecalc' = [needsStyleRecalc EXCEPT ![g] = @ \/ name = "disabled"]

\* accessKeyAction: the select above the optgroup takes the focus, unless it
\* has it.
accessKeyAction(g) ==
    LET select == ownerSelectElement(g)
    IN  /\ focused' = IF select # NoNode /\ ~focused[select]
                      THEN [focused EXCEPT ![select] = TRUE] ELSE focused
        /\ UNCHANGED <<created, parent, label, disabled, needsStyleRecalc, styledDisabled,
                       shouldRecalcListItems, listItems>>

-----------------------------------------------------------------------------
(* The document around it: the tree, the attributes, the select. *)

\* The nodes from a node up to its root.
RECURSIVE inclusiveAncestors(_)
inclusiveAncestors(node) ==
    IF node = NoNode THEN {} ELSE {node} \cup inclusiveAncestors(parent[node])

\* The virtual call of childrenChanged on the parent of a child that came
\* or went: a select marks itself, an optgroup is asked, nobody else cares.
notifyChildrenChanged(tree, node, recalc) ==
    IF node \in Selects THEN setRecalcListItems(recalc, node)
    ELSE IF node \in OptGroups THEN childrenChanged(tree, node, recalc)
    ELSE recalc

\* ContainerNode::appendChild of a node that is in no tree.
appendChild(newParent, child) ==
    /\ newParent \notin Options
    /\ child \notin Selects
    /\ parent[child] = NoNode
    /\ child \notin inclusiveAncestors(newParent)
    /\ parent' = [parent EXCEPT ![child] = newParent]
    /\ shouldRecalcListItems' =
           notifyChildrenChanged(parent', newParent, shouldRecalcListItems)
    /\ UNCHANGED <<created, label, disabled, needsStyleRecalc, styledDisabled, listItems, focused>>

\* ContainerNode::removeChild.
removeChild(child) ==
    /\ parent[child] # NoNode
    /\ parent' = [parent EXCEPT ![child] = NoNode]
    /\ shouldRecalcListItems' =
           notifyChildrenChanged(parent', parent[child], shouldRecalcListItems)
    /\ UNCHANGED <<created, label, disabled, needsStyleRecalc, styledDisabled, listItems, focused>>

\* Element::setAttribute of label and of disabled on an optgroup, and
\* removeAttribute of disabled.
setLabel(g, text) ==
    /\ label' = [label EXCEPT ![g] = text]
    /\ parseAttribute(g, "label")
    /\ UNCHANGED <<created, parent, disabled, styledDisabled, listItems, focused>>

setDisabled(g, on) ==
    /\ disabled' = [disabled EXCEPT ![g] = on]
    /\ parseAttribute(g, "disabled")
    /\ UNCHANGED <<created, parent, label, styledDisabled, listItems, focused>>

\* Whether the select lists a node: options and optgroups below it, with
\* nothing but optgroups between.
RECURSIVE listedUnder(_, _)
listedUnder(node, select) ==
    /\ parent[node] # NoNode
    /\ \/ parent[node] = select
       \/ parent[node] \in OptGroups /\ listedUnder(parent[node], select)

\* What the select has to show: its options, and its optgroups with their
\* label text and whether they are disabled.
Shown(select) ==
    {IF node \in OptGroups
     THEN [node |-> node, text |-> groupLabelText(node),
           disabled |-> isDisabledFormControl(node)]
     ELSE [node |-> node] :
        node \in {n \in OptGroups \cup Options : listedUnder(n, select)}}

\* HTMLSelectElement::listItems when the list is out of date.
recalcListItems(select) ==
    /\ shouldRecalcListItems[select]
    /\ listItems' = [listItems EXCEPT ![select] = Shown(select)]
    /\ shouldRecalcListItems' = [shouldRecalcListItems EXCEPT ![select] = FALSE]
    /\ UNCHANGED <<created, parent, label, disabled, needsStyleRecalc, styledDisabled, focused>>

\* The style of an optgroup is resolved again.
resolveStyle(g) ==
    /\ needsStyleRecalc[g]
    /\ styledDisabled' = [styledDisabled EXCEPT ![g] = disabled[g]]
    /\ needsStyleRecalc' = [needsStyleRecalc EXCEPT ![g] = FALSE]
    /\ UNCHANGED <<created, parent, label, disabled, shouldRecalcListItems, listItems, focused>>

\* The focus goes elsewhere.
blur(select) ==
    /\ focused[select]
    /\ focused' = [focused EXCEPT ![select] = FALSE]
    /\ UNCHANGED <<created, parent, label, disabled, needsStyleRecalc, styledDisabled,
                   shouldRecalcListItems, listItems>>

\* The elements there are: every optgroup among them was made by create.
Elements == Nodes \ (OptGroups \ created)

Init ==
    /\ created = {}
    /\ parent = [n \in Nodes |-> NoNode]
    /\ label = [g \in OptGroups |-> << >>]
    /\ disabled = [g \in OptGroups |-> FALSE]
    /\ needsStyleRecalc = [g \in OptGroups |-> FALSE]
    /\ styledDisabled = [g \in OptGroups |-> FALSE]
    /\ shouldRecalcListItems = [s \in Selects |-> FALSE]
    /\ listItems = [s \in Selects |-> {}]
    /\ focused = [s \in Selects |-> FALSE]

Next ==
    \/ \E g \in OptGroups : create(g)
    \/ \E newParent, child \in Elements : appendChild(newParent, child)
    \/ \E child \in Elements : removeChild(child)
    \/ \E g \in created, text \in Labels : setLabel(g, text)
    \/ \E g \in created, on \in BOOLEAN : setDisabled(g, on)
    \/ \E g \in created : accessKeyAction(g)
    \/ \E select \in Selects : recalcListItems(select)
    \/ \E g \in created : resolveStyle(g)
    \/ \E select \in Selects : blur(select)

Spec == Init /\ [][Next]_vars

-----------------------------------------------------------------------------
(* Properties. *)

\* The types, and: no node is its own ancestor, and a shown label text has
\* no white space at its ends and no two in a row.
TypeOK ==
    /\ created \subseteq OptGroups
    /\ parent \in [Nodes -> Elements \cup {NoNode}]
    /\ \A n \in Nodes : n \notin inclusiveAncestors(parent[n])
    /\ label \in [OptGroups -> Labels \cup {<< >>}]
    /\ disabled \in [OptGroups -> BOOLEAN]
    /\ needsStyleRecalc \in [OptGroups -> BOOLEAN]
    /\ styledDisabled \in [OptGroups -> BOOLEAN]
    /\ shouldRecalcListItems \in [Selects -> BOOLEAN]
    /\ focused \in [Selects -> BOOLEAN]
    /\ \A s \in Selects : \A item \in listItems[s] :
          /\ item.node \in OptGroups \cup Options
          /\ item.node \in OptGroups =>
                \A i \in DOMAIN item.text :
                    item.text[i] = Space =>
                        i \notin {1, Len(item.text)} /\ item.text[i + 1] # Space

\* childrenChanged, parseAttribute and recalcSelectOptions against the list
\* of the select: whenever a select is not marked for recalculation, the
\* list it shows is the list of the document as it is now, whatever was
\* appended, removed or changed, on an optgroup directly below the select
\* or on one nested in other optgroups, in a tree or outside of one.
ShownIsCurrent ==
    \A select \in Selects :
        ~shouldRecalcListItems[select] => listItems[select] = Shown(select)

\* parseAttribute of disabled: whenever no new style is asked for, the
\* style of an optgroup was resolved with the attribute as it is now.
StyleIsCurrent ==
    \A g \in OptGroups : ~needsStyleRecalc[g] => styledDisabled[g] = disabled[g]

=============================================================================
