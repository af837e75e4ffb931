------------------------------ MODULE Knowledge ------------------------------
(* The knowledge base (knowledge/): spaces and pages edited from forms that  *)
(* carry the version they show. A save locks editor, space and page and      *)
(* refuses a form that is older than the page.                               *)
EXTENDS Accounts, Sequences, FiniteSets

CONSTANTS
  Editors,     \* members of staff with a form open, one each
  MaxPages,    \* bound: pages of the space
  MaxDepth,    \* levels of pages (20 in the code)
  MaxRevisions \* bound: revisions of a page, saves of the space

Pages == 1..MaxPages
Space == 0              \* what a form for the space itself is on,
NewPage == MaxPages + 1 \* and one for a page that does not exist yet

ASSUME KnowledgeAssumption == MaxPages \in Nat /\ MaxDepth \in Nat /\ NoOne \notin Pages

VARIABLES
  parent,    \* the page above each page, or NoOne
  revisions, \* the revisions of each page: the version each editor had seen
  published, \* number of the published revision, 0 if there is none
  saves,     \* the saves of the space; its version is one more than their number
  form       \* what each editor has open

wikiVars == <<parent, revisions, published, saves, form>>

NoForm == [on |-> NoOne, version |-> 0]
Version(p) == Len(revisions[p])
Exists(p) == Version(p) > 0
Of(what) ==
  IF what = Space THEN Len(saves) + 1 ELSE IF what = NewPage THEN 0 ELSE Version(what)

WikiInit ==
  /\ parent = [p \in Pages |-> NoOne]
  /\ revisions = [p \in Pages |-> <<>>]
  /\ published = [p \in Pages |-> 0]
  /\ saves = <<>>
  /\ form = [e \in Editors |-> NoForm]

(* A form, or a page with buttons: it shows the version it was made for.     *)
Show(e, what) ==
  /\ form[e] = NoForm
  /\ form' = [form EXCEPT ![e] = [on |-> what, version |-> Of(what)]]
  /\ UNCHANGED <<parent, revisions, published, saves>>

OpenPage(e, p) == (p \in Pages => Exists(p)) /\ Show(e, p)
OpenSpace(e) == Show(e, Space)

CloseForm(e) ==
  /\ form[e] # NoForm
  /\ form' = [form EXCEPT ![e] = NoForm]
  /\ UNCHANGED <<parent, revisions, published, saves>>

(* locked_actor and check_version.                                           *)
MayEdit(e) == account[e].active /\ ~account[e].deleted
Current(e, what) == form[e].on = what /\ form[e].version = Of(what)

(* validate_parent: a page and those above it, which are in every set that   *)
(* holds the page and, with a page, the one above it; and the pages below.   *)
Upward(S) == \A s \in S : parent[s] # NoOne => parent[s] \in S
Chain(q) == {r \in Pages : \A S \in SUBSET Pages : q \in S /\ Upward(S) => r \in S}
Below(p) == {q \in Pages : Exists(q) /\ p \in Chain(q)}

ValidParent(p, q) ==
  \/ q = NoOne
  \/ /\ q \in Pages \ {p} /\ Exists(q)
     /\ p \notin Chain(q)
     /\ \A r \in Below(p) \cup {p} : Cardinality(Chain(q)) + Cardinality(Chain(r) \ Chain(p)) < MaxDepth

(* write_revision: the version its editor had seen stands for what it says.  *)
WriteRevision(e, p, q, publish) ==
  /\ ValidParent(p, q)
  /\ parent' = [parent EXCEPT ![p] = q]
  /\ revisions' = [revisions EXCEPT ![p] = Append(@, form[e].version)]
  /\ published' = IF publish THEN [published EXCEPT ![p] = Version(p) + 1] ELSE published
  /\ form' = [form EXCEPT ![e] = NoForm]
  /\ UNCHANGED saves

(* save_page, as a draft or published; a new page is the next one.           *)
SavePage(e, p, q, publish) ==
  /\ MayEdit(e) /\ Version(p) < MaxRevisions
  /\ \/ Exists(p) /\ Current(e, p)
     \/ ~Exists(p) /\ (\A r \in 1..(p - 1) : Exists(r)) /\ Current(e, NewPage)
  /\ WriteRevision(e, p, q, publish)

(* publish_page and restore_revision: the draft, or an older text as a new   *)
(* draft, in its place.                                                      *)
Rewrite(e, p, publish) ==
  /\ MayEdit(e) /\ Current(e, p) /\ Version(p) \in 1..(MaxRevisions - 1)
  /\ WriteRevision(e, p, parent[p], publish)

(* The buttons, which post the version the page showed.                      *)
PublishPage(e, p) == Rewrite(e, p, TRUE)
RestoreRevision(e, p) == Rewrite(e, p, FALSE)

(* save_space *)
SaveSpace(e) ==
  /\ MayEdit(e) /\ Current(e, Space) /\ Len(saves) < MaxRevisions
  /\ saves' = Append(saves, form[e].version)
  /\ form' = [form EXCEPT ![e] = NoForm]
  /\ UNCHANGED <<parent, revisions, published>>

EditSpace == \E e \in Editors : OpenSpace(e) \/ CloseForm(e) \/ SaveSpace(e)

EditPages ==
  \/ \E e \in Editors, p \in Pages \cup {NewPage} : OpenPage(e, p)
  \/ \E e \in Editors : CloseForm(e)
  \/ \E e \in Editors, p \in Pages : \/ \E q \in Pages \cup {NoOne}, publish \in BOOLEAN : SavePage(e, p, q, publish)
                                     \/ PublishPage(e, p) \/ RestoreRevision(e, p)

WikiNext == EditSpace \/ EditPages

-----------------------------------------------------------------------------

(* No save is lost under another: each revision was written by somebody who  *)
(* had the one before it on the screen. The published revision exists, and   *)
(* the pages form trees of at most MaxDepth levels whatever is moved at a    *)
(* time.                                                                     *)
NothingOverwritten ==
  /\ \A p \in Pages : \A n \in DOMAIN revisions[p] : revisions[p][n] = n - 1
  /\ \A n \in DOMAIN saves : saves[n] = n
  /\ \A p \in Pages : published[p] <= Version(p)

PagesFormTrees ==
  \A p \in Pages : parent[p] # NoOne =>
    /\ Exists(p) /\ Exists(parent[p])
    /\ p \notin Chain(parent[p])
    /\ Cardinality(Chain(p)) <= MaxDepth
=============================================================================
