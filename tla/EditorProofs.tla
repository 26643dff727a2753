----------------------------- MODULE EditorProofs -----------------------------
(***************************************************************************)
(* What holds of the sale page editors for any number of edits and saves:  *)
(* NothingLostUnasked, NothingOverwritten and DraftIsCurrent of Editor.    *)
(***************************************************************************)
EXTENDS Editor, TLAPS

-----------------------------------------------------------------------------
(* Types. *)

Pages  == [page : Content, count : Nat]
Drafts == {<<>>} \cup (Content \X BOOLEAN)
Uploads(open) == IF open = "list" THEN Maybe(Content) ELSE Maybe(SUBSET Ids)
Editors(open) ==
  [open : {open}, value : Content, kept : Content, touched : BOOLEAN,
   typed : BOOLEAN, allow : BOOLEAN, timer : BOOLEAN, dialog : BOOLEAN, blocked : BOOLEAN,
   hydrated : BOOLEAN, upload : Uploads(open), made : SUBSET Ids, silent : SUBSET Ids,
   refused : BOOLEAN, fragile : BOOLEAN, fresh : BOOLEAN]
SaveCalls ==
  [at : {"no", "sent", "stored"}, how : {"editor", "pixels", "copy"}, slot : Slots,
   value : Content, publish : BOOLEAN, mine : BOOLEAN, fresh : BOOLEAN]

TypeInv ==
  /\ stored \in Content /\ created \in Seq(Content)
  /\ list \in Entries(Pages) /\ drafts \in [Slots -> Drafts]
  /\ ed.open \in Slots \cup {"list"} /\ ed \in Editors(ed.open)
  /\ save \in SaveCalls /\ unheard \in BOOLEAN
  /\ edits \in Nat /\ saves \in Nat

(* The save of the editor that is open is of what it shows, unless it is   *)
(* being edited since; the save of an earlier one makes its editor no base *)
(* for another, and what was stored is there until the answer.             *)
SaveInv ==
  /\ save.mine => Editing /\ save.slot = ed.open /\ save.how = "editor"
  /\ save.how # "editor" => (save.slot = "page" <=> save.how = "pixels")
  /\ save.at # "no" /\ save.mine /\ ~ed.fragile => ed.hydrated /\ save.value = ed.value
  /\ save.at # "no" /\ ~save.mine /\ Editing => ~ed.allow /\ ~ed.fresh
  /\ save.at = "stored" => IF save.slot = "page" THEN stored = save.value
                           ELSE Edits(save.value) \subseteq Safe

(* An editor without fragile edits holds all that was done in it.          *)
FormInv ==
  Editing /\ ~ed.fragile =>
    /\ ed.made \subseteq Edits(ed.value)
    /\ ~ed.hydrated => ed.value = Blank /\ ed.made = {}
    /\ ed.upload # <<>> => ed.value.blocks = ed.upload[1]
    /\ ~ed.allow /\ ed.made \ ed.silent # {} => IsDirty
    /\ ed.allow => ed.made \subseteq Safe

(* What is vouched for, or lands and will be, is the page.                 *)
ListInv ==
  ~unheard /\ save.at # "stored" =>
    /\ Vouched(list) => list.data[1].page = stored
    /\ ~Idle(list) /\ ~list.outrun => list.answer[1].page = stored

(* Nothing that starts from the page takes an edit off it.                 *)
PageInv ==
  /\ ed.open = "page" /\ ed.fresh /\ ~ed.fragile => Edits(stored) \subseteq Edits(ed.value)
  /\ Choosing /\ ed.fresh =>
       /\ Edits(stored) \subseteq Edits(ed.upload[1])
       /\ save.at # "no" => save.how = "pixels" /\ save.value = ed.upload[1]
  /\ NothingOverwritten

(* Nor does a draft that is not marked as an old one.                      *)
OldInv ==
  kind = "blocks" /\ drafts["page"] # <<>> /\ ~drafts["page"][2] =>
    /\ ~unheard /\ ~(save.at = "stored" /\ save.slot = "page")
         => Edits(stored) \subseteq Edits(drafts["page"][1])
    /\ ~(save.at = "stored" /\ save.how = "pixels")

(* The block editor's draft data is what it shows, and is saved unless its *)
(* timer runs or the browser refused it.                                   *)
DraftInv ==
  kind = "blocks" /\ Editing =>
    /\ ~ed.typed /\ ed.kept = ed.value
    /\ IsDirty /\ ~ed.timer /\ ~ed.refused /\ ~ed.fragile
         => drafts[ed.open] # <<>> /\ drafts[ed.open][1] = ed.value

EditorInv ==
  /\ TypeInv /\ SaveInv /\ FormInv /\ ListInv
  /\ PageInv /\ OldInv /\ DraftInv

LEMMA BlankHolds == Blank \in Content
  BY DEF Blank, Content

LEMMA ClosedHolds == Closed \in Editors("list") /\ Closed.open = "list" /\ Closed.upload = <<>>
<1>1. <<>> \in Uploads("list")
  BY DEF Uploads, Maybe
<1> QED
  BY <1>1, BlankHolds DEF Closed, Editors

LEMMA EditorInitially == EditorAssumption /\ EditorInit => EditorInv
<1> SUFFICES ASSUME EditorAssumption, EditorInit PROVE EditorInv
  OBVIOUS
<1>1. NoEntry \in Entries(Pages) /\ NoEntry.data = <<>> /\ NoEntry.answer = <<>>
  BY DEF NoEntry, Entries, Shapes, Maybe
<1>2. NoSave \in SaveCalls /\ NoSave.at = "no" /\ ~NoSave.mine /\ NoSave.how = "editor"
  BY BlankHolds DEF NoSave, SaveCalls, Slots
<1>3. stored \in Content
  BY EditorAssumption DEF EditorInit, Content, Ids, EditorAssumption
<1>4. ~Editing /\ ~Choosing /\ ed.open = "list"
  BY ClosedHolds DEF EditorInit, Editing, Choosing, Slots
<1>5. TypeInv
  <2>1. ed.open \in Slots \cup {"list"} /\ ed \in Editors(ed.open)
    BY <1>4, ClosedHolds DEF EditorInit
  <2>2. created \in Seq(Content) /\ drafts \in [Slots -> Drafts]
    BY DEF EditorInit, Drafts
  <2> QED
    BY <1>1, <1>2, <1>3, <2>1, <2>2 DEF EditorInit, TypeInv
<1>6. SaveInv /\ FormInv /\ DraftInv
  BY <1>2, <1>4 DEF SaveInv, FormInv, DraftInv, EditorInit
<1>7. ListInv
  BY <1>1 DEF ListInv, EditorInit, Vouched, Current, Has, Idle
<1>8. PageInv /\ OldInv
  BY <1>2, <1>4 DEF PageInv, OldInv, NothingOverwritten, EditorInit, Slots
<1> QED
  BY <1>5, <1>6, <1>7, <1>8 DEF EditorInv

(* The three properties. *)
LEMMA EditorInvSuffices ==
  EditorInv => NothingLostUnasked /\ NothingOverwritten /\ DraftIsCurrent
<1> SUFFICES ASSUME EditorInv
             PROVE  NothingLostUnasked /\ NothingOverwritten /\ DraftIsCurrent
  OBVIOUS
<1>1. NothingLostUnasked
  <2> SUFFICES ASSUME Editing, ~Prompts, ~ed.fragile PROVE ed.made \ ed.silent \subseteq Safe
    BY DEF NothingLostUnasked
  <2>1. ed.made \ ed.silent \subseteq Safe
    BY DEF EditorInv, FormInv, Prompts
  <2> QED
    BY <2>1
<1>2. NothingOverwritten /\ DraftIsCurrent
  BY DEF EditorInv, PageInv, DraftInv, DraftIsCurrent
<1> QED
  BY <1>1, <1>2

-----------------------------------------------------------------------------
(* Steps of the list. *)

LEMMA SafeStays == ASSUME UNCHANGED <<stored, created>> PROVE Safe' = Safe
  BY DEF Safe

LEMMA ListKeeps ==
  ASSUME EditorInv, UNCHANGED <<kind, unheard, stored, created, drafts, ed, save, edits, saves>>,
         list' \in Entries(Pages), ListInv'
  PROVE  EditorInv'
<1>1. TypeInv' /\ OldInv'
  BY DEF EditorInv, TypeInv, OldInv
<1>2. SaveInv' /\ FormInv'
  BY SafeStays DEF EditorInv, SaveInv, FormInv, Editing, IsDirty
<1>3. PageInv' /\ DraftInv'
  BY DEF EditorInv, PageInv, NothingOverwritten, Choosing, DraftInv, Editing, IsDirty
<1> QED
  BY <1>1, <1>2, <1>3 DEF EditorInv

LEMMA FetchKeeps ==
  ASSUME EditorInv, AskList \/ ListFails
  PROVE  EditorInv'
<1>1. /\ UNCHANGED <<kind, unheard, stored, created, drafts, ed, save, edits, saves>>
      /\ list \in Entries(Pages)
  BY DEF AskList, ListFails, EditorInv, TypeInv
<1>2. CASE AskList
  <2> DEFINE answer == [page |-> stored, count |-> Len(created)]
  <2>1. answer \in Pages /\ answer.page = stored
    BY DEF Pages, EditorInv, TypeInv
  <2>2. list' = Asked(list, answer)
    BY <1>2 DEF AskList
  <2> HIDE DEF answer
  <2>3. /\ list' \in Entries(Pages) /\ list'.data = list.data /\ list'.answer = <<answer>>
        /\ Vouched(list') <=> Vouched(list)
    <3>1. \A v \in Pages :
            /\ Asked(list, v) \in Entries(Pages)
            /\ Asked(list, v).data = list.data /\ Asked(list, v).answer = <<v>>
            /\ Vouched(Asked(list, v)) <=> Vouched(list)
      BY <1>1, EntryMoves
    <3> QED
      BY <2>1, <2>2, <3>1
  <2>4. ListInv'
    BY <1>1, <2>1, <2>3 DEF ListInv, EditorInv, Vouched, Idle, Current, Has
  <2> QED
    BY <1>1, <2>3, <2>4, ListKeeps
<1>3. CASE ListFails
  <2>1. /\ list' \in Entries(Pages) /\ list'.data = list.data /\ list'.answer = <<>>
        /\ Vouched(list') <=> Vouched(list)
    BY <1>1, <1>3, EntryMoves DEF ListFails
  <2>2. ListInv'
    BY <1>1, <2>1 DEF ListInv, EditorInv, Vouched, Idle, Current, Has
  <2> QED
    BY <1>1, <2>1, <2>2, ListKeeps
<1> QED
  BY <1>2, <1>3

(* An editor that is filled had nothing in it but fragile edits, and is    *)
(* fresh if what lands is the page.                                        *)
LEMMA LandListKeeps ==
  ASSUME EditorInv, LandList
  PROVE  EditorInv'
<1> DEFINE page == list.answer[1].page
<1>1. /\ UNCHANGED <<kind, unheard, stored, created, drafts, save, edits, saves>>
      /\ list \in Entries(Pages) /\ ~Idle(list) /\ list' = Landed(list)
      /\ ed' = Hydrate(ed, page) /\ ed \in Editors(ed.open)
  BY DEF LandList, EditorInv, TypeInv
<1>2. /\ list' \in Entries(Pages) /\ list'.data = list.answer /\ list'.answer = <<>>
      /\ Vouched(list') <=> ~list.outrun
  BY <1>1, EntryMoves
<1>3. page \in Content
  <2>1. list.answer \in Maybe(Pages) /\ list.answer # <<>>
    BY <1>1 DEF Entries, Shapes, Idle
  <2> QED
    BY <2>1 DEF Maybe, Pages
<1>4. ListInv'
  BY <1>1, <1>2 DEF ListInv, EditorInv, Vouched, Idle, Current, Has
<1>5. CASE ed' = ed
  BY <1>1, <1>2, <1>4, <1>5, ListKeeps
<1>6. CASE kind = "classic" /\ ed.open = "page" /\ ~ed.hydrated
  <2> DEFINE fragile == ed.fragile \/ ed.upload # <<>>
             fresh == ~unheard /\ save.at = "no" /\ ~list.outrun
             e == [ed EXCEPT !.value = page, !.kept = page, !.typed = FALSE, !.hydrated = TRUE,
                     !.timer = TRUE, !.fragile = fragile, !.fresh = fresh]
  <2>1. ed' = e
    BY <1>1, <1>6 DEF Hydrate
  <2>0. fragile \in BOOLEAN /\ fresh \in BOOLEAN
    OBVIOUS
  <2> HIDE DEF page, fragile, fresh
  <2>2. /\ e \in Editors(ed.open)
        /\ UNCHANGED <<ed.open, ed.touched, ed.allow, ed.upload, ed.made, ed.silent>>
        /\ e.value = page /\ e.hydrated /\ e.fragile = fragile /\ e.fresh = fresh
    BY <1>1, <1>3, <2>0, <2>1 DEF Editors
  <2> USE DEF fragile, fresh
  <2> HIDE DEF e
  <2>3. TypeInv'
    BY <1>1, <1>2, <2>1, <2>2 DEF EditorInv, TypeInv
  <2>4. SaveInv'
    BY <1>1, <1>6, <2>1, <2>2, SafeStays DEF EditorInv, SaveInv, Editing
  <2>5. FormInv'
    BY <1>1, <1>6, <2>1, <2>2, SafeStays DEF EditorInv, FormInv, Editing
  <2>6. PageInv'
    <3>1. e.fresh => page = stored
      BY <1>1, <2>2 DEF EditorInv, ListInv, page
    <3> QED
      BY <1>1, <1>6, <2>1, <2>2, <3>1 DEF EditorInv, PageInv, NothingOverwritten, Choosing, Slots
  <2>7. OldInv' /\ DraftInv'
    BY <1>1, <1>6 DEF EditorInv, OldInv, DraftInv
  <2> QED
    BY <1>4, <2>3, <2>4, <2>5, <2>6, <2>7 DEF EditorInv
<1> QED
  BY <1>1, <1>5, <1>6 DEF Hydrate

-----------------------------------------------------------------------------
(* Steps of the editor that leave the content alone. *)

pages == <<kind, unheard, stored, created, list, edits, saves>>

LEMMA FlagKeeps ==
  ASSUME EditorInv, UNCHANGED <<pages, drafts, save>>, ed' \in Editors(ed.open),
         UNCHANGED <<ed.open, ed.value, ed.kept, ed.touched, ed.typed, ed.allow, ed.timer,
                     ed.hydrated, ed.made, ed.silent, ed.refused, ed.fragile, ed.fresh>>,
         \/ ed'.upload = ed.upload
         \/ Editing /\ ed'.upload \in {<<>>, <<ed.value.blocks>>}
  PROVE  EditorInv'
<1>1. TypeInv' /\ ListInv' /\ OldInv'
  BY DEF EditorInv, TypeInv, ListInv, OldInv, pages
<1>2. SaveInv' /\ FormInv'
  BY SafeStays DEF EditorInv, SaveInv, FormInv, Editing, IsDirty, pages
<1>3. PageInv' /\ DraftInv'
  BY DEF EditorInv, PageInv, NothingOverwritten, Choosing, DraftInv, Editing, IsDirty, pages,
         Slots
<1> QED
  BY <1>1, <1>2, <1>3 DEF EditorInv

LEMMA FlagStepKeeps ==
  ASSUME EditorInv,
         \/ StartUpload \/ UploadFails \/ CancelLeave \/ CloseDialog
         \/ Leave /\ Prompts
  PROVE  EditorInv'
<1>1. ed \in Editors(ed.open)
  BY DEF EditorInv, TypeInv
<1>2. UNCHANGED <<pages, drafts, save>>
  BY DEF StartUpload, UploadFails, CancelLeave, CloseDialog, Leave, pages
<1>3. CASE StartUpload
  <2> DEFINE upload == <<ed.value.blocks>>
  <2>1. Editing /\ ed' = [ed EXCEPT !.upload = upload]
    BY <1>3 DEF StartUpload
  <2>2. upload \in Uploads(ed.open)
    BY <1>1, <2>1 DEF Editors, Content, Uploads, Maybe, Editing, Slots
  <2> HIDE DEF upload
  <2>3. /\ ed' \in Editors(ed.open) /\ ed'.upload = upload
        /\ UNCHANGED <<ed.open, ed.value, ed.kept, ed.touched, ed.typed, ed.allow, ed.timer,
                       ed.hydrated, ed.made, ed.silent, ed.refused, ed.fragile, ed.fresh>>
    BY <1>1, <2>1, <2>2 DEF Editors
  <2> QED
    BY <1>2, <2>1, <2>3, FlagKeeps DEF upload
<1>4. CASE UploadFails
  <2>1. Editing /\ ed' = [ed EXCEPT !.upload = <<>>]
    BY <1>4 DEF UploadFails
  <2>2. <<>> \in Uploads(ed.open)
    BY DEF Uploads, Maybe
  <2>3. /\ ed' \in Editors(ed.open) /\ ed'.upload = <<>>
        /\ UNCHANGED <<ed.open, ed.value, ed.kept, ed.touched, ed.typed, ed.allow, ed.timer,
                       ed.hydrated, ed.made, ed.silent, ed.refused, ed.fragile, ed.fresh>>
    BY <1>1, <2>1, <2>2 DEF Editors
  <2> QED
    BY <1>2, <2>1, <2>3, FlagKeeps
<1>5. CASE CancelLeave \/ CloseDialog \/ (Leave /\ Prompts)
  <2>1. \/ ed' = [ed EXCEPT !.blocked = FALSE]
        \/ ed' = [ed EXCEPT !.dialog = FALSE]
        \/ ed' = [ed EXCEPT !.blocked = TRUE]
    BY <1>5 DEF CancelLeave, CloseDialog, Leave
  <2>2. /\ ed' \in Editors(ed.open)
        /\ UNCHANGED <<ed.open, ed.value, ed.kept, ed.touched, ed.typed, ed.allow, ed.timer,
                       ed.hydrated, ed.upload, ed.made, ed.silent, ed.refused, ed.fragile,
                       ed.fresh>>
    BY <1>1, <2>1 DEF Editors
  <2> QED
    BY <1>2, <2>2, FlagKeeps
<1> QED
  BY <1>3, <1>4, <1>5

LEMMA AutoSaveKeeps ==
  ASSUME EditorInv, AutoSave
  PROVE  EditorInv'
<1> DEFINE flag  == ed.fragile \/ ~ed.fresh
           draft == <<ed.kept, flag>>
<1>1. /\ UNCHANGED <<pages, save>> /\ Editing /\ ed \in Editors(ed.open)
      /\ ed' = [ed EXCEPT !.timer = FALSE, !.refused = FALSE]
      /\ drafts' = [drafts EXCEPT ![ed.open] = draft]
      /\ drafts \in [Slots -> Drafts]
  BY DEF AutoSave, pages, EditorInv, TypeInv
<1>2. flag \in BOOLEAN
  OBVIOUS
<1> HIDE DEF flag
<1>3. draft \in Drafts /\ draft[1] = ed.kept /\ draft[2] = flag /\ draft # <<>>
  BY <1>1, <1>2 DEF Drafts, Editors
<1>4. /\ ed' \in Editors(ed.open) /\ ed'.timer = FALSE
      /\ UNCHANGED <<ed.open, ed.value, ed.kept, ed.touched, ed.typed, ed.allow,
                     ed.hydrated, ed.upload, ed.made, ed.silent, ed.fragile, ed.fresh>>
  BY <1>1 DEF Editors
<1> HIDE DEF draft
<1>5. drafts' \in [Slots -> Drafts] /\ drafts'[ed.open] = draft
      /\ \A s \in Slots \ {ed.open} : drafts'[s] = drafts[s]
  BY <1>1, <1>3 DEF Editing
<1>6. TypeInv' /\ ListInv'
  BY <1>1, <1>4, <1>5 DEF EditorInv, TypeInv, ListInv, pages
<1>7. SaveInv' /\ FormInv'
  BY <1>1, <1>4, SafeStays DEF EditorInv, SaveInv, FormInv, Editing, IsDirty, pages
<1>8. PageInv'
  BY <1>1, <1>4 DEF EditorInv, PageInv, NothingOverwritten, Choosing, Editing, Slots, pages
<1>9. DraftInv'
  BY <1>1, <1>3, <1>4, <1>5 DEF EditorInv, DraftInv, Editing, IsDirty, pages
<1>10. OldInv'
  <2>1. CASE ed.open = "page"
    <3>1. CASE kind = "blocks" /\ ~flag
      <4>1. ed.fresh /\ ~ed.fragile /\ ed.kept = ed.value
        BY <1>1, <3>1 DEF flag, EditorInv, DraftInv
      <4>2. Edits(stored) \subseteq Edits(ed.kept)
        BY <2>1, <4>1 DEF EditorInv, PageInv
      <4>3. ~(save.at = "stored" /\ save.how = "pixels")
        BY <1>1, <4>1 DEF EditorInv, SaveInv
      <4> QED
        BY <1>1, <1>3, <1>5, <2>1, <4>2, <4>3 DEF OldInv, pages
    <3> QED
      BY <1>1, <1>3, <1>5, <2>1, <3>1 DEF OldInv, pages
  <2>2. CASE ed.open # "page"
    BY <1>1, <1>5, <2>2 DEF EditorInv, OldInv, pages, Slots
  <2> QED
    BY <2>1, <2>2
<1> QED
  BY <1>6, <1>7, <1>8, <1>9, <1>10 DEF EditorInv

(* A draft the browser refused: the one of before stays, and the editor    *)
(* does not know.                                                          *)
LEMMA AutoSaveFailsKeeps ==
  ASSUME EditorInv, AutoSaveFails
  PROVE  EditorInv'
<1>1. /\ UNCHANGED <<pages, drafts, save>> /\ Editing /\ ed \in Editors(ed.open)
      /\ ed' = [ed EXCEPT !.timer = FALSE, !.refused = TRUE]
  BY DEF AutoSaveFails, pages, EditorInv, TypeInv
<1>2. /\ ed' \in Editors(ed.open) /\ ed'.refused = TRUE
      /\ UNCHANGED <<ed.open, ed.value, ed.kept, ed.touched, ed.typed, ed.allow,
                     ed.hydrated, ed.upload, ed.made, ed.silent, ed.fragile, ed.fresh>>
  BY <1>1 DEF Editors
<1>3. TypeInv' /\ ListInv' /\ OldInv'
  BY <1>1, <1>2 DEF EditorInv, TypeInv, ListInv, OldInv, pages
<1>4. SaveInv' /\ FormInv'
  BY <1>1, <1>2, SafeStays DEF EditorInv, SaveInv, FormInv, Editing, IsDirty, pages
<1>5. PageInv' /\ DraftInv'
  BY <1>1, <1>2 DEF EditorInv, PageInv, NothingOverwritten, Choosing, DraftInv, Editing, Slots,
                    pages
<1> QED
  BY <1>3, <1>4, <1>5 DEF EditorInv

(* An editor, or the dialog of the pixels, is left; a save of it goes on.  *)
LEMMA LeaveKeeps ==
  ASSUME EditorInv, UNCHANGED <<pages, drafts>>, ed' = Closed,
         save' \in SaveCalls, ~save'.mine,
         UNCHANGED <<save.at, save.how, save.slot, save.value, save.fresh>>
  PROVE  EditorInv'
<1>1. ~Editing' /\ ~Choosing' /\ ed'.open = "list" /\ ed' \in Editors(ed'.open)
  BY ClosedHolds DEF Editing, Choosing, Slots
<1>2. TypeInv' /\ ListInv' /\ OldInv'
  BY <1>1 DEF EditorInv, TypeInv, ListInv, OldInv, pages
<1>3. SaveInv' /\ FormInv' /\ DraftInv'
  BY <1>1, SafeStays DEF EditorInv, SaveInv, FormInv, DraftInv, pages
<1>4. PageInv'
  BY <1>1 DEF EditorInv, PageInv, NothingOverwritten, pages
<1> QED
  BY <1>2, <1>3, <1>4 DEF EditorInv

LEMMA LeaveStepKeeps ==
  ASSUME EditorInv, (Leave /\ ~Prompts) \/ ConfirmLeave \/ BackToList \/ ClosePixelSwitch
  PROVE  EditorInv'
<1>1. UNCHANGED <<pages, drafts>> /\ ed' = Closed /\ save \in SaveCalls
  BY DEF Leave, ConfirmLeave, BackToList, ClosePixelSwitch, Left, pages, EditorInv, TypeInv
<1>2. CASE save' = [save EXCEPT !.mine = FALSE]
  <2>1. /\ save' \in SaveCalls /\ ~save'.mine
        /\ UNCHANGED <<save.at, save.how, save.slot, save.value, save.fresh>>
    BY <1>1, <1>2 DEF SaveCalls
  <2> QED
    BY <1>1, <2>1, LeaveKeeps
<1>3. CASE ClosePixelSwitch
  <2>1. ~save.mine /\ save' = save
    BY <1>3 DEF ClosePixelSwitch, Choosing, EditorInv, SaveInv, Editing, Slots
  <2> QED
    BY <1>1, <2>1, LeaveKeeps
<1> QED
  BY <1>2, <1>3 DEF Leave, ConfirmLeave, BackToList, Left

LEMMA ListedHolds ==
  ASSUME EditorInv
  PROVE  /\ Listed \in Content
         /\ Vouched(list) /\ ~unheard /\ save.at = "no" => Listed = stored
<1>1. Listed \in Content
  BY BlankHolds DEF Listed, Has, EditorInv, TypeInv, Entries, Shapes, Maybe, Pages
<1> QED
  BY <1>1 DEF Listed, EditorInv, ListInv, Vouched, Current

(* An editor starts from the page if its list is vouched for, and from a   *)
(* draft that is not an old one.                                           *)
LEMMA OpenKeeps ==
  ASSUME EditorInv, NEW slot \in Slots, OpenBlocks(slot) \/ OpenClassic(slot)
  PROVE  EditorInv'
<1>0. PICK restored \in BOOLEAN :
        /\ restored => Restorable(slot)
        /\ ed' = Opened(slot, restored)
  BY DEF OpenBlocks, OpenClassic, Restorable
<1> DEFINE base  == IF slot = "page" THEN Listed ELSE Blank
           value == IF restored THEN drafts[slot][1] ELSE base
           filled == slot = "new" \/ Has(list)
           timer == value # base \/ (kind = "classic" /\ slot = "page" /\ Has(list))
           fresh == Vouched(list) /\ ~unheard /\ save.at = "no" /\ ~(restored /\ drafts[slot][2])
           e == [Closed EXCEPT !.open = slot, !.value = value, !.kept = value,
                   !.hydrated = filled, !.timer = timer, !.fresh = fresh]
<1>1. /\ UNCHANGED <<pages, drafts>> /\ ed' = e
      /\ save' = [save EXCEPT !.mine = FALSE] /\ save \in SaveCalls
      /\ list \in Entries(Pages) /\ drafts[slot] \in Drafts
  BY <1>0 DEF OpenBlocks, OpenClassic, Opened, pages, EditorInv, TypeInv
<1>2. Listed \in Content
  BY ListedHolds
<1>3. restored => /\ drafts[slot] # <<>> /\ drafts[slot] \in Content \X BOOLEAN
                  /\ slot = "page" => kind = "blocks"
  BY <1>0, <1>1 DEF Restorable, RestorableClassic, Drafts
<1>4. /\ value \in Content /\ filled \in BOOLEAN /\ timer \in BOOLEAN
      /\ fresh \in BOOLEAN
  <2>1. filled \in BOOLEAN /\ timer \in BOOLEAN /\ fresh \in BOOLEAN
    BY DEF Has, Vouched
  <2>2. value \in Content
    BY <1>2, <1>3, BlankHolds
  <2> QED
    BY <2>1, <2>2
<1> HIDE DEF base, value, filled, timer, fresh
<1>5. /\ e \in Editors(slot) /\ e.open = slot /\ e.value = value /\ e.kept = value
      /\ ~e.touched /\ ~e.typed /\ ~e.allow /\ e.upload = <<>> /\ e.made = {}
      /\ e.hydrated = filled /\ e.fresh = fresh
  <2>1. <<>> \in Uploads(slot)
    BY DEF Uploads, Maybe
  <2> QED
    BY <1>4, <2>1, BlankHolds DEF Closed, Editors
<1> HIDE DEF e
<1>6. /\ save' \in SaveCalls /\ ~save'.mine
      /\ UNCHANGED <<save.at, save.how, save.slot, save.value, save.fresh>>
  BY <1>1 DEF SaveCalls
<1>7. ~filled => value = Blank
  <2> SUFFICES ASSUME ~filled PROVE value = Blank
    OBVIOUS
  <2>1. slot = "page" /\ ~Has(list)
    BY DEF filled, Slots
  <2>2. ~restored
    BY <1>3, <2>1 DEF OpenBlocks, OpenClassic
  <2> QED
    BY <2>1, <2>2 DEF value, base, Listed
<1>8. slot = "page" /\ fresh => Edits(stored) \subseteq Edits(value)
  <2> SUFFICES ASSUME slot = "page", fresh PROVE Edits(stored) \subseteq Edits(value)
    OBVIOUS
  <2>1. Listed = stored
    BY ListedHolds DEF fresh
  <2>2. CASE restored
    BY <1>3, <2>2 DEF fresh, value, EditorInv, OldInv
  <2>3. CASE ~restored
    BY <2>1, <2>3 DEF value, base
  <2> QED
    BY <2>2, <2>3
<1>9. TypeInv' /\ ListInv' /\ OldInv'
  BY <1>1, <1>5, <1>6 DEF EditorInv, TypeInv, ListInv, OldInv, pages
<1>10. SaveInv'
  BY <1>1, <1>5, <1>6, SafeStays DEF EditorInv, SaveInv, pages, fresh
<1>11. FormInv' /\ DraftInv'
  BY <1>1, <1>5, <1>7 DEF FormInv, DraftInv, IsDirty
<1>12. PageInv'
  BY <1>1, <1>5, <1>6, <1>8 DEF EditorInv, PageInv, NothingOverwritten, Choosing, Slots, pages
<1> QED
  BY <1>9, <1>10, <1>11, <1>12 DEF EditorInv

-----------------------------------------------------------------------------
(* Edits. *)

(* What an edit does to the editor e that it makes f: it is in the         *)
(* content, beside all that was there unless it is a fragile one.          *)
Grown(f) ==
  /\ f \in Editors(ed.open)
  /\ f.allow = ed.allow /\ f.hydrated = ed.hydrated /\ f.fresh = ed.fresh
  /\ f.made = ed.made \cup {edits'}
  /\ f.silent = ed.silent \/ f.silent = ed.silent \cup {edits'}
  /\ ed.fragile \/ Fragile => f.fragile
  /\ ~f.fragile => /\ Edits(ed.value) \cup {edits'} \subseteq Edits(f.value)
                   /\ f.upload = <<>> \/ (f.upload = ed.upload /\ f.value.blocks = ed.value.blocks)
  /\ \/ f.touched \/ f.typed
     \/ f.touched = ed.touched /\ f.typed = ed.typed /\ edits' \in f.silent
  /\ kind = "blocks" => ~f.typed /\ f.kept = f.value /\ f.timer

LEMMA EditKeeps ==
  ASSUME EditorInv, Editing,
         UNCHANGED <<kind, unheard, stored, created, list, drafts, save, saves>>,
         edits' \in Nat, Grown(ed')
  PROVE  EditorInv'
<1>1. /\ ed' \in Editors(ed.open) /\ ed'.open = ed.open
      /\ ed'.allow = ed.allow /\ ed'.hydrated = ed.hydrated /\ ed'.fresh = ed.fresh
      /\ ed'.made = ed.made \cup {edits'} /\ ed.silent \subseteq ed'.silent
      /\ ed.fragile \/ Busy \/ ed.allow \/ ~ed.hydrated => ed'.fragile
      /\ ~ed'.fragile => /\ Edits(ed.value) \cup {edits'} \subseteq Edits(ed'.value)
                         /\ \/ ed'.upload = <<>>
                            \/ ed'.upload = ed.upload /\ ed'.value.blocks = ed.value.blocks
      /\ \/ ed'.touched \/ ed'.typed
         \/ ed'.touched = ed.touched /\ ed'.typed = ed.typed /\ edits' \in ed'.silent
      /\ kind = "blocks" => ~ed'.typed /\ ed'.kept = ed'.value /\ ed'.timer
  BY DEF Grown, Fragile, Editors
<1>2. TypeInv' /\ ListInv' /\ OldInv'
  BY <1>1 DEF EditorInv, TypeInv, ListInv, OldInv
<1>3. SaveInv'
  BY <1>1, SafeStays DEF EditorInv, SaveInv, Editing, Busy
<1>4. FormInv'
  BY <1>1 DEF EditorInv, FormInv, Editing, IsDirty
<1>5. PageInv' /\ DraftInv'
  BY <1>1 DEF EditorInv, PageInv, NothingOverwritten, Choosing, DraftInv, Editing, Slots, IsDirty
<1> QED
  BY <1>2, <1>3, <1>4, <1>5 DEF EditorInv

LEMMA EditedHolds ==
  ASSUME NEW open, NEW e \in Editors(open), NEW value \in Content, NEW fragile \in BOOLEAN,
         edits' \in Ids
  PROVE  LET f == Edited(e, value, fragile) IN
         /\ f \in Editors(open) /\ f.value = value
         /\ f.made = e.made \cup {edits'} /\ f.fragile = (e.fragile \/ fragile)
         /\ f.kept = e.kept /\ f.touched = e.touched /\ f.typed = e.typed /\ f.allow = e.allow
         /\ f.timer = e.timer /\ f.hydrated = e.hydrated /\ f.upload = e.upload
         /\ f.fresh = e.fresh /\ f.silent = e.silent
<1> DEFINE made == e.made \cup {edits'}
           marked == e.fragile \/ fragile
           f == [e EXCEPT !.value = value, !.made = made, !.fragile = marked]
<1>1. made \in SUBSET Ids /\ marked \in BOOLEAN
  BY DEF Editors
<1>2. Edited(e, value, fragile) = f
  BY DEF Edited
<1> HIDE DEF made, marked
<1>3. /\ f \in Editors(open) /\ f.value = value /\ f.made = made /\ f.fragile = marked
      /\ f.kept = e.kept /\ f.touched = e.touched /\ f.typed = e.typed /\ f.allow = e.allow
      /\ f.timer = e.timer /\ f.hydrated = e.hydrated /\ f.upload = e.upload
      /\ f.fresh = e.fresh /\ f.silent = e.silent
  BY <1>1 DEF Editors
<1> HIDE DEF f
<1> QED
  BY <1>2, <1>3 DEF made, marked

LEMMA InDraftHolds ==
  ASSUME NEW open, NEW e \in Editors(open)
  PROVE  LET f == InDraft(e) IN
         /\ f \in Editors(open) /\ f.kept = e.value /\ f.timer
         /\ f.value = e.value /\ f.made = e.made /\ f.fragile = e.fragile
         /\ f.touched = e.touched /\ f.typed = e.typed /\ f.allow = e.allow
         /\ f.hydrated = e.hydrated /\ f.upload = e.upload /\ f.fresh = e.fresh
         /\ f.silent = e.silent
  BY DEF InDraft, Editors

(* An edit of the content sets touched or typed, takes the draft data with *)
(* it unless in the classic form, and may be an upload that lands.         *)
LEMMA EditGrows ==
  ASSUME EditorInv, Editing, NEW value \in Content, NEW fragile \in BOOLEAN,
         NEW lands \in BOOLEAN, NEW e, NEW f,
         edits' \in Ids, Fragile => fragile,
         e = Edited(ed, value, fragile),
         \/ /\ f \in {[e EXCEPT !.typed = TRUE], [InDraft(e) EXCEPT !.typed = TRUE]}
            /\ kind # "blocks" /\ ~lands
         \/ f = [InDraft(e) EXCEPT !.touched = TRUE] /\ ~lands
         \/ f = [InDraft(e) EXCEPT !.touched = TRUE, !.upload = <<>>] /\ lands
         \/ f = [e EXCEPT !.touched = TRUE, !.upload = <<>>] /\ kind # "blocks" /\ lands,
         ~fragile /\ ~ed.fragile =>
           /\ Edits(ed.value) \cup {edits'} \subseteq Edits(value)
           /\ ~lands /\ ed.upload # <<>> => value.blocks = ed.value.blocks
  PROVE  Grown(f)
<1> DEFINE d == InDraft(e)
<1>1. ed \in Editors(ed.open) /\ <<>> \in Uploads(ed.open)
  BY DEF EditorInv, TypeInv, Uploads, Maybe
<1>2. /\ e \in Editors(ed.open) /\ e.value = value
      /\ e.made = ed.made \cup {edits'} /\ e.fragile = (ed.fragile \/ fragile)
      /\ e.kept = ed.kept /\ e.touched = ed.touched /\ e.typed = ed.typed /\ e.allow = ed.allow
      /\ e.timer = ed.timer /\ e.hydrated = ed.hydrated /\ e.upload = ed.upload
      /\ e.fresh = ed.fresh /\ e.silent = ed.silent
  BY <1>1, EditedHolds
<1>3. /\ d \in Editors(ed.open) /\ d.kept = e.value /\ d.timer
      /\ d.value = e.value /\ d.made = e.made /\ d.fragile = e.fragile
      /\ d.touched = e.touched /\ d.typed = e.typed /\ d.allow = e.allow
      /\ d.hydrated = e.hydrated /\ d.upload = e.upload /\ d.fresh = e.fresh
      /\ d.silent = e.silent
  BY <1>2, InDraftHolds
<1> HIDE DEF d
<1>5. /\ f \in Editors(ed.open) /\ f.value = e.value /\ f.made = e.made
      /\ f.fragile = e.fragile /\ f.allow = e.allow /\ f.hydrated = e.hydrated
      /\ f.silent = e.silent
      /\ f.fresh = e.fresh /\ f.upload = (IF lands THEN <<>> ELSE e.upload)
      /\ f.touched \/ f.typed
      /\ kind = "blocks" => f.typed = e.typed /\ f.kept = d.kept /\ f.timer = d.timer
  <2>1. CASE f = [e EXCEPT !.typed = TRUE] /\ kind # "blocks" /\ ~lands
    BY <1>2, <2>1 DEF Editors
  <2>2. CASE f = [d EXCEPT !.typed = TRUE] /\ kind # "blocks" /\ ~lands
    BY <1>3, <2>2 DEF Editors
  <2>3. CASE f = [d EXCEPT !.touched = TRUE] /\ ~lands
    <3>1. /\ f \in Editors(ed.open) /\ f.value = d.value /\ f.made = d.made
          /\ f.fragile = d.fragile /\ f.allow = d.allow /\ f.hydrated = d.hydrated
          /\ f.fresh = d.fresh /\ f.upload = d.upload /\ f.touched = TRUE /\ f.silent = d.silent
          /\ f.typed = d.typed /\ f.kept = d.kept /\ f.timer = d.timer
      BY <1>3, <2>3 DEF Editors
    <3> QED
      BY <1>3, <2>3, <3>1
  <2>4. CASE f = [d EXCEPT !.touched = TRUE, !.upload = <<>>] /\ lands
    <3>1. /\ f \in Editors(ed.open) /\ f.value = d.value /\ f.made = d.made
          /\ f.fragile = d.fragile /\ f.allow = d.allow /\ f.hydrated = d.hydrated
          /\ f.fresh = d.fresh /\ f.upload = <<>> /\ f.touched = TRUE /\ f.silent = d.silent
          /\ f.typed = d.typed /\ f.kept = d.kept /\ f.timer = d.timer
      BY <1>1, <1>3, <2>4 DEF Editors
    <3> QED
      BY <1>3, <2>4, <3>1
  <2>5. CASE f = [e EXCEPT !.touched = TRUE, !.upload = <<>>] /\ kind # "blocks" /\ lands
    BY <1>1, <1>2, <2>5 DEF Editors
  <2> QED
    BY <2>1, <2>2, <2>3, <2>4, <2>5 DEF d
<1>6. kind = "blocks" => ~ed.typed
  BY DEF EditorInv, DraftInv
<1>7. ed.fragile \/ fragile <=> f.fragile
  BY <1>2, <1>5, Zenon
<1>8. ~f.fragile => /\ Edits(ed.value) \cup {edits'} \subseteq Edits(f.value)
                    /\ \/ f.upload = <<>>
                       \/ f.upload = ed.upload /\ f.value.blocks = ed.value.blocks
  BY <1>2, <1>5, <1>7
<1>9. kind = "blocks" => ~f.typed /\ f.kept = f.value /\ f.timer
  BY <1>2, <1>3, <1>5, <1>6
<1> QED
  BY <1>2, <1>5, <1>7, <1>8, <1>9 DEF Grown

LEMMA EditStepKeeps ==
  ASSUME EditorAssumption, EditorInv,
         \/ EditBlocks \/ ChooseTemplate \/ EditLists \/ EditStyle \/ TogglePixel
         \/ EditInput \/ TypeInput \/ RemoveHeroImage
         \/ LandBlockImage \/ LandImage \/ LandHeroImage \/ LandStyleImage
  PROVE  EditorInv' /\ UNCHANGED <<created, list, save, saves, ed.open>> /\ Editing
<1>1. /\ UNCHANGED <<kind, unheard, stored, created, list, drafts, save, saves>>
      /\ Editing /\ edits < MaxEdits /\ edits' = edits + 1
  BY DEF EditBlocks, ChooseTemplate, EditLists, EditStyle, TogglePixel, EditList, EditInput,
         TypeInput, RemoveHeroImage, Edit, LandBlockImage, LandImage, LandHeroImage,
         LandStyleImage
<1>2. edits' \in Nat /\ edits' \in Ids
  BY <1>1 DEF EditorInv, TypeInv, EditorAssumption, Ids
<1>3. SUFFICES Grown(ed')
  BY <1>1, <1>2, EditKeeps DEF Grown, Editors
<1>4. /\ ed.value \in Content /\ ed.upload \in Maybe(SUBSET Ids)
      /\ Fragile \in BOOLEAN /\ FragileList \in BOOLEAN /\ (Fragile => FragileList)
  BY <1>1 DEF EditorInv, TypeInv, Editors, Uploads, Editing, Slots, Fragile, FragileList, Busy
<1>5. /\ WithBlock \in Content /\ WithField \in Content
      /\ Edits(ed.value) \cup {edits'} \subseteq Edits(WithBlock)
      /\ Edits(ed.value) \cup {edits'} \subseteq Edits(WithField)
      /\ WithField.blocks = ed.value.blocks
  BY <1>2, <1>4 DEF WithBlock, WithField, Content, Edits
<1>6. CASE EditBlocks \/ ChooseTemplate \/ EditLists \/ EditStyle \/ TogglePixel
  <2>1. ed' = [InDraft(Edited(ed, WithBlock, FragileList)) EXCEPT !.touched = TRUE]
    BY <1>6 DEF EditBlocks, ChooseTemplate, EditLists, EditStyle, TogglePixel, EditList, Edit
  <2>2. ~FragileList => ed.upload = <<>>
    BY DEF FragileList
  <2> QED
    BY <1>1, <1>2, <1>4, <1>5, <2>1, <2>2, EditGrows
<1>7. CASE EditInput
  <2>1. ed' = [InDraft(Edited(ed, WithField, Fragile)) EXCEPT !.touched = TRUE]
    BY <1>7 DEF EditInput, Edit, Captures
  <2> QED
    BY <1>1, <1>2, <1>4, <1>5, <2>1, EditGrows
<1>8. CASE TypeInput
  <2> DEFINE e == Edited(ed, WithField, Fragile)
  <2>1. /\ ed' \in {[e EXCEPT !.typed = TRUE], [InDraft(e) EXCEPT !.typed = TRUE]}
        /\ kind # "blocks"
    BY <1>8 DEF TypeInput, Edit
  <2> HIDE DEF e
  <2> QED
    BY <1>1, <1>2, <1>4, <1>5, <2>1, EditGrows DEF e
<1>9. CASE LandImage
  <2>1. ed' = [InDraft(Edited(ed, WithBlock, Fragile)) EXCEPT !.touched = TRUE, !.upload = <<>>]
    BY <1>9 DEF LandImage
  <2> QED
    BY <1>1, <1>2, <1>4, <1>5, <2>1, EditGrows
<1>10. CASE LandHeroImage
  <2> DEFINE e == Edited(ed, WithField, Fragile)
  <2>1. /\ ed' \in {[e EXCEPT !.touched = TRUE, !.upload = <<>>],
                    [InDraft(e) EXCEPT !.touched = TRUE, !.upload = <<>>]}
        /\ kind # "blocks"
    BY <1>10 DEF LandHeroImage
  <2> HIDE DEF e
  <2> QED
    BY <1>1, <1>2, <1>4, <1>5, <2>1, EditGrows DEF e
<1>11. CASE LandBlockImage
  <2> DEFINE value == [ed.value EXCEPT !.blocks = ed.upload[1] \cup {edits'}]
  <2>1. /\ ed.upload # <<>>
        /\ ed' = [InDraft(Edited(ed, value, Fragile)) EXCEPT !.touched = TRUE, !.upload = <<>>]
    BY <1>11 DEF LandBlockImage
  <2>2. /\ value \in Content
        /\ ed.value.blocks = ed.upload[1] => Edits(ed.value) \cup {edits'} \subseteq Edits(value)
    BY <1>2, <1>4, <2>1 DEF Content, Maybe, Edits
  <2>3. ~ed.fragile => ed.value.blocks = ed.upload[1]
    BY <1>1, <2>1 DEF EditorInv, FormInv
  <2> HIDE DEF value
  <2> QED
    BY <1>1, <1>2, <1>4, <2>1, <2>2, <2>3, EditGrows
<1>12. CASE LandStyleImage
  <2>1. PICK lost \in SUBSET (ed.value.blocks \ ed.upload[1]) :
          ed' = [InDraft(Edited(ed, [ed.value EXCEPT !.blocks = (@ \ lost) \cup {edits'}], Fragile))
                   EXCEPT !.touched = TRUE, !.upload = <<>>]
    BY <1>12 DEF LandStyleImage
  <2> DEFINE value == [ed.value EXCEPT !.blocks = (@ \ lost) \cup {edits'}]
  <2>2. /\ value \in Content
        /\ lost = {} => Edits(ed.value) \cup {edits'} \subseteq Edits(value)
    BY <1>2, <1>4 DEF Content, Edits
  <2>3. ~ed.fragile => lost = {}
    <3>1. ~ed.fragile => ed.value.blocks = ed.upload[1]
      BY <1>1, <1>12 DEF LandStyleImage, EditorInv, FormInv
    <3> QED
      BY <3>1
  <2>4. ed' = [InDraft(Edited(ed, value, Fragile)) EXCEPT !.touched = TRUE, !.upload = <<>>]
    BY <2>1
  <2> HIDE DEF value
  <2> QED
    BY <1>1, <1>2, <1>4, <2>2, <2>3, <2>4, EditGrows
<1>13. CASE RemoveHeroImage
  <2> DEFINE e == Edited(ed, WithField, Fragile)
             silent == e.silent \cup {edits'}
  <2>1. ed' = [e EXCEPT !.silent = silent] /\ kind # "blocks"
    BY <1>13 DEF RemoveHeroImage, Edit
  <2>2. /\ e \in Editors(ed.open) /\ e.value = WithField
        /\ e.made = ed.made \cup {edits'} /\ e.fragile = (ed.fragile \/ Fragile)
        /\ e.touched = ed.touched /\ e.typed = ed.typed /\ e.allow = ed.allow
        /\ e.hydrated = ed.hydrated /\ e.upload = ed.upload
        /\ e.fresh = ed.fresh /\ e.silent = ed.silent
    <3>1. ed \in Editors(ed.open)
      BY DEF EditorInv, TypeInv
    <3>2. \A v \in Content, b \in BOOLEAN :
            LET f == Edited(ed, v, b) IN
            /\ f \in Editors(ed.open) /\ f.value = v
            /\ f.made = ed.made \cup {edits'} /\ f.fragile = (ed.fragile \/ b)
            /\ f.touched = ed.touched /\ f.typed = ed.typed /\ f.allow = ed.allow
            /\ f.hydrated = ed.hydrated /\ f.upload = ed.upload
            /\ f.fresh = ed.fresh /\ f.silent = ed.silent
      BY <1>2, <3>1, EditedHolds
    <3> QED
      BY <1>4, <1>5, <3>2
  <2>3. silent = ed.silent \cup {edits'} /\ silent \in SUBSET Ids /\ edits' \in silent
    BY <1>2, <2>2 DEF Editors
  <2> HIDE DEF e, silent
  <2>4. /\ ed' \in Editors(ed.open) /\ ed'.value = e.value /\ ed'.made = e.made
        /\ ed'.silent = silent /\ ed'.fragile = e.fragile /\ ed'.allow = e.allow
        /\ ed'.touched = e.touched /\ ed'.typed = e.typed /\ ed'.hydrated = e.hydrated
        /\ ed'.upload = e.upload /\ ed'.fresh = e.fresh
    BY <2>1, <2>2, <2>3 DEF Editors
  <2> QED
    BY <1>5, <2>1, <2>2, <2>3, <2>4 DEF Grown
<1> QED
  BY <1>6, <1>7, <1>8, <1>9, <1>10, <1>11, <1>12, <1>13

-----------------------------------------------------------------------------
(* Saves. *)

LEMMA SubmitKeeps ==
  ASSUME EditorInv, NEW publish \in BOOLEAN, SubmitBlocks(publish) \/ SubmitClassic(publish)
  PROVE  EditorInv'
<1> DEFINE fresh == ed.fresh /\ ~ed.fragile
           call  == [at |-> "sent", how |-> "editor", slot |-> ed.open, value |-> ed.value,
                     publish |-> publish, mine |-> TRUE, fresh |-> fresh]
<1>1. /\ UNCHANGED <<kind, unheard, stored, created, list, drafts, ed, edits>>
      /\ Editing /\ save.at = "no" /\ save' = call /\ saves' = saves + 1
      /\ ed.value.fields # {} /\ ed \in Editors(ed.open)
  BY DEF SubmitBlocks, SubmitClassic, Submit, ValidBlocks, ValidClassic, EditorInv, TypeInv
<1>2. fresh \in BOOLEAN
  OBVIOUS
<1> HIDE DEF fresh
<1>3. /\ call \in SaveCalls /\ call.at = "sent" /\ call.how = "editor" /\ call.slot = ed.open
      /\ call.value = ed.value /\ call.mine /\ call.fresh = fresh
  BY <1>1, <1>2 DEF SaveCalls, Editing, Editors
<1> HIDE DEF call
<1>4. TypeInv' /\ ListInv' /\ OldInv'
  BY <1>1, <1>3 DEF EditorInv, TypeInv, ListInv, OldInv
<1>5. ~ed.fragile => ed.hydrated
  BY <1>1 DEF EditorInv, FormInv, Blank
<1>6. SaveInv'
  BY <1>1, <1>3, <1>5 DEF SaveInv, Editing
<1>7. FormInv' /\ DraftInv'
  BY <1>1, SafeStays DEF EditorInv, FormInv, DraftInv, Editing, IsDirty
<1>8. PageInv'
  BY <1>1, <1>3 DEF EditorInv, PageInv, NothingOverwritten, Choosing, Editing, Slots, fresh
<1> QED
  BY <1>4, <1>6, <1>7, <1>8 DEF EditorInv

(* What the server takes is of the editor that is open, or makes every     *)
(* other editor and draft an old one.                                      *)
LEMMA ServerSavesKeeps ==
  ASSUME EditorInv, ServerSaves
  PROVE  EditorInv'
<1>1. /\ UNCHANGED <<kind, unheard, list, ed, edits, saves>> /\ save.at = "sent"
      /\ save \in SaveCalls /\ save' = [save EXCEPT !.at = "stored"]
      /\ stored \in Content /\ created \in Seq(Content) /\ drafts \in [Slots -> Drafts]
      /\ IF save.slot = "page" THEN stored' = save.value /\ created' = created
                               ELSE created' = Append(created, save.value) /\ stored' = stored
      /\ drafts' = IF save.how = "pixels" /\ drafts["page"] # <<>>
                   THEN [drafts EXCEPT !["page"] = <<@[1], TRUE>>] ELSE drafts
  BY DEF ServerSaves, EditorInv, TypeInv
<1>2. /\ save' \in SaveCalls /\ save'.at = "stored"
      /\ UNCHANGED <<save.how, save.slot, save.value, save.mine, save.fresh>>
  BY <1>1 DEF SaveCalls
<1>3. /\ drafts' \in [Slots -> Drafts]
      /\ \A s \in Slots : /\ drafts'[s] # <<>> <=> drafts[s] # <<>>
                          /\ drafts[s] # <<>> => drafts'[s][1] = drafts[s][1]
      /\ IF save.how = "pixels" THEN drafts'["page"] = <<>> \/ drafts'["page"][2] = TRUE
                                ELSE drafts' = drafts
  <2>1. CASE save.how = "pixels" /\ drafts["page"] # <<>>
    <3> DEFINE old == drafts["page"]
               new == <<old[1], TRUE>>
    <3>1. drafts' = [drafts EXCEPT !["page"] = new]
      BY <1>1, <2>1
    <3>2. old \in Content \X BOOLEAN
      BY <1>1, <2>1 DEF Drafts, Slots
    <3>3. new \in Content \X BOOLEAN /\ new[1] = old[1] /\ new[2] = TRUE /\ new # <<>>
      BY <3>2
    <3> HIDE DEF new
    <3> QED
      BY <1>1, <2>1, <3>1, <3>2, <3>3 DEF Drafts, Slots
  <2>2. CASE ~(save.how = "pixels" /\ drafts["page"] # <<>>)
    BY <1>1, <2>2
  <2> QED
    BY <2>1, <2>2
<1>4. /\ stored' \in Content /\ created' \in Seq(Content)
      /\ save.slot # "page" => Safe \subseteq Safe'
      /\ Edits(save.value) \subseteq Safe'
  <2>1. CASE save.slot = "page"
    BY <1>1, <2>1 DEF SaveCalls, Safe
  <2>2. CASE save.slot # "page"
    <3>1. /\ created' \in Seq(Content) /\ Len(created') = Len(created) + 1
          /\ \A n \in 1 .. Len(created) : created'[n] = created[n]
          /\ created'[Len(created) + 1] = save.value /\ Len(created) \in Nat
      BY <1>1, <2>2 DEF SaveCalls
    <3>2. Edits(created'[Len(created')]) \subseteq Safe'
      BY <3>1 DEF Safe
    <3>3. ASSUME NEW n \in 1 .. Len(created) PROVE Edits(created[n]) \subseteq Safe'
      <4>1. n \in 1 .. Len(created') /\ created'[n] = created[n]
        BY <3>1
      <4> QED
        BY <4>1 DEF Safe
    <3>4. Edits(stored) \subseteq Safe'
      BY <1>1, <2>2 DEF Safe
    <3> QED
      BY <1>1, <2>2, <3>1, <3>2, <3>3, <3>4 DEF Safe
  <2> QED
    BY <2>1, <2>2
<1>5. TypeInv' /\ ListInv'
  BY <1>1, <1>2, <1>3, <1>4 DEF EditorInv, TypeInv, ListInv
<1>6. SaveInv'
  BY <1>1, <1>2, <1>4 DEF EditorInv, SaveInv, Editing
<1>7. FormInv'
  <2> SUFFICES ASSUME Editing, ~ed.fragile, ed.allow PROVE ed.made \subseteq Safe'
    BY <1>1 DEF EditorInv, FormInv, Editing, IsDirty
  <2>1. save.value = ed.value
    BY <1>1 DEF EditorInv, SaveInv
  <2>2. ed.made \subseteq Edits(ed.value)
    BY DEF EditorInv, FormInv
  <2> QED
    BY <1>4, <2>1, <2>2
<1>8. PageInv'
  <2>1. ASSUME ed.open = "page", ed.fresh, ~ed.fragile
        PROVE  Edits(stored') \subseteq Edits(ed.value)
    <3>1. save.mine /\ save.slot = "page" /\ save.value = ed.value
      BY <1>1, <2>1 DEF EditorInv, SaveInv, Editing, Slots
    <3> QED
      BY <1>1, <3>1
  <2>2. ASSUME Choosing, ed.fresh
        PROVE  /\ stored' = ed.upload[1]
               /\ save.how = "pixels" /\ save.value = ed.upload[1]
    <3>1. save.how = "pixels" /\ save.value = ed.upload[1]
      BY <1>1, <2>2 DEF EditorInv, PageInv
    <3>2. save.slot = "page"
      BY <3>1 DEF EditorInv, SaveInv
    <3> QED
      BY <1>1, <3>1, <3>2
  <2> QED
    BY <1>1, <1>2, <2>1, <2>2 DEF PageInv, NothingOverwritten, Choosing
<1>9. OldInv'
  BY <1>1, <1>2, <1>3 DEF EditorInv, OldInv, SaveInv, Slots, SaveCalls
<1>10. DraftInv'
  BY <1>1, <1>3 DEF EditorInv, DraftInv, Editing, IsDirty
<1> QED
  BY <1>5, <1>6, <1>7, <1>8, <1>9, <1>10 DEF EditorInv

LEMMA SaveFailsKeeps ==
  ASSUME EditorInv, SaveFails
  PROVE  EditorInv'
<1>1. /\ UNCHANGED <<kind, stored, created, list, drafts, ed, edits, saves>>
      /\ save' = NoSave /\ unheard' = (unheard \/ save.at = "stored")
      /\ NoSave \in SaveCalls /\ NoSave.at = "no" /\ ~NoSave.mine /\ NoSave.how = "editor"
  BY BlankHolds DEF SaveFails, NoSave, SaveCalls, Slots
<1>2. unheard' \in BOOLEAN /\ (~unheard' => ~unheard /\ save.at # "stored")
  BY <1>1
<1>3. TypeInv'
  BY <1>1, <1>2 DEF EditorInv, TypeInv
<1>4. ListInv' /\ OldInv'
  BY <1>1, <1>2 DEF EditorInv, ListInv, OldInv
<1>5. SaveInv' /\ FormInv' /\ DraftInv'
  BY <1>1, SafeStays DEF EditorInv, SaveInv, FormInv, DraftInv, Editing, IsDirty
<1>6. PageInv'
  BY <1>1 DEF EditorInv, PageInv, NothingOverwritten, Choosing
<1> QED
  BY <1>3, <1>4, <1>5, <1>6 DEF EditorInv

(* The answer to a save: its draft is cleared, and the editor is left, or  *)
(* published in which nothing is dirty, or goes on.                        *)
LEMMA AnswerKeeps ==
  ASSUME EditorInv, UNCHANGED <<kind, unheard, stored, created, edits, saves>>,
         save.at = "stored", save' = NoSave, list' = Outdated(list, TRUE),
         drafts' = IF save.how = "editor" THEN [drafts EXCEPT ![save.slot] = <<>>] ELSE drafts,
         ed' \in Editors(ed'.open),
         \/ ed' = Closed
         \/ /\ UNCHANGED <<ed.open, ed.value, ed.hydrated, ed.upload, ed.made, ed.silent,
                           ed.fresh>>
            /\ ed.fragile => ed'.fragile
            /\ \/ UNCHANGED <<ed.touched, ed.typed, ed.allow>>
               \/ ed'.allow /\ save.mine
            /\ kind = "blocks" =>
                 /\ UNCHANGED <<ed.typed, ed.kept, ed.timer, ed.refused>>
                 /\ \/ ~ed'.touched
                    \/ ed'.touched = ed.touched
                       /\ (save.how = "editor" /\ save.slot = ed.open => ed'.fragile)
  PROVE  EditorInv'
<1>1. /\ NoSave \in SaveCalls /\ NoSave.at = "no" /\ ~NoSave.mine /\ NoSave.how = "editor"
      /\ save \in SaveCalls /\ list \in Entries(Pages) /\ drafts \in [Slots -> Drafts]
      /\ ed.open \in Slots \cup {"list"} /\ Closed.open = "list"
  BY BlankHolds, ClosedHolds DEF NoSave, SaveCalls, Slots, EditorInv, TypeInv
<1>2. list' \in Entries(Pages) /\ ~Vouched(list') /\ (Idle(list') \/ list'.outrun)
  BY <1>1, OutdatedMoves
<1>3. /\ drafts' \in [Slots -> Drafts]
      /\ \A s \in Slots : drafts'[s] = IF save.how = "editor" /\ s = save.slot THEN <<>>
                                       ELSE drafts[s]
  BY <1>1 DEF Drafts, SaveCalls
<1>4. TypeInv' /\ ListInv'
  BY <1>1, <1>2, <1>3 DEF EditorInv, TypeInv, ListInv
<1>5. SaveInv'
  BY <1>1 DEF SaveInv
<1>6. FormInv'
  <2>1. Safe' = Safe
    BY SafeStays
  <2>2. CASE ed' = Closed
    BY <1>1, <2>2 DEF FormInv, Editing, Slots
  <2>3. CASE UNCHANGED <<ed.open, ed.value, ed.hydrated, ed.upload, ed.made, ed.silent, ed.touched,
                         ed.typed, ed.allow>> /\ (ed.fragile => ed'.fragile)
    BY <2>1, <2>3 DEF EditorInv, FormInv, Editing, IsDirty
  <2>4. CASE /\ UNCHANGED <<ed.open, ed.value, ed.hydrated, ed.upload, ed.made>>
             /\ (ed.fragile => ed'.fragile) /\ ed'.allow /\ save.mine
    <3> SUFFICES ASSUME Editing, ~ed.fragile PROVE ed.made \subseteq Safe
      BY <2>1, <2>4 DEF EditorInv, FormInv, Editing
    <3>1. save.value = ed.value /\ Edits(save.value) \subseteq Safe
      <4>1. save.slot = "page" => stored = save.value
        BY DEF EditorInv, SaveInv
      <4>2. Edits(stored) \subseteq Safe
        BY DEF Safe
      <4> QED
        BY <2>4, <4>1, <4>2 DEF EditorInv, SaveInv
    <3> QED
      BY <3>1 DEF EditorInv, FormInv
  <2> QED
    BY <2>2, <2>3, <2>4
<1>7. PageInv'
  BY <1>1 DEF EditorInv, PageInv, NothingOverwritten, Choosing, Closed
<1>8. OldInv'
  BY <1>1, <1>3 DEF EditorInv, OldInv, SaveInv, Slots
<1>9. DraftInv'
  <2> SUFFICES ASSUME kind = "blocks", Editing'
               PROVE  /\ ~ed'.typed /\ ed'.kept = ed'.value
                      /\ IsDirty' /\ ~ed'.timer /\ ~ed'.refused /\ ~ed'.fragile
                           => drafts'[ed'.open] # <<>> /\ drafts'[ed'.open][1] = ed'.value
    BY DEF DraftInv
  <2>1. ed' # Closed
    BY <1>1 DEF Editing, Slots
  <2>2. /\ Editing /\ ed'.open = ed.open /\ ed'.value = ed.value
        /\ ed'.typed = ed.typed /\ ed'.kept = ed.kept /\ ed'.timer = ed.timer
        /\ ed'.refused = ed.refused
        /\ ~ed.typed /\ ed.kept = ed.value
    BY <2>1 DEF EditorInv, DraftInv, Editing
  <2>3. ASSUME ed'.touched, ~ed'.timer, ~ed'.refused, ~ed'.fragile
        PROVE  drafts'[ed.open] # <<>> /\ drafts'[ed.open][1] = ed.value
    <3>1. /\ ed.touched /\ ~ed.fragile /\ ~(save.how = "editor" /\ save.slot = ed.open)
      BY <2>1, <2>3
    <3> QED
      BY <1>3, <2>2, <2>3, <3>1 DEF EditorInv, DraftInv, IsDirty, Editing
  <2> QED
    BY <2>2, <2>3 DEF IsDirty
<1> QED
  BY <1>4, <1>5, <1>6, <1>7, <1>8, <1>9 DEF EditorInv

LEMMA LandKeeps ==
  ASSUME EditorInv, LandSave \/ LandListSave
  PROVE  EditorInv'
<1>1. /\ UNCHANGED <<kind, unheard, stored, created, edits, saves>>
      /\ save.at = "stored" /\ save' = NoSave /\ list' = Outdated(list, TRUE)
      /\ ed \in Editors(ed.open) /\ Closed \in Editors(Closed.open)
  BY ClosedHolds DEF LandSave, LandListSave, Invalidate, EditorInv, TypeInv
<1>2. CASE LandListSave
  <2>1. save.how # "editor" /\ drafts' = drafts /\ ed' \in {Closed, ed}
    BY <1>2 DEF LandListSave
  <2> QED
    BY <1>1, <2>1, AnswerKeeps
<1>3. CASE LandSave
  <2>1. save.how = "editor" /\ drafts' = [drafts EXCEPT ![save.slot] = <<>>]
    BY <1>3 DEF LandSave, ClearDraft
  <2>2. CASE ed' = Closed
    BY <1>1, <2>1, <2>2, AnswerKeeps
  <2>3. CASE save.mine /\ ed' # Closed
    <3> DEFINE e == Published(ed)
    <3>1. ed' = e \/ (kind # "blocks" /\ ed' = InDraft(e))
      BY <1>3, <2>3 DEF LandSave, AfterBlocks, AfterClassic
    <3>2. /\ e \in Editors(ed.open) /\ ~e.touched /\ e.allow
          /\ e.open = ed.open /\ e.value = ed.value /\ e.kept = ed.kept /\ e.typed = ed.typed
          /\ e.timer = ed.timer /\ e.hydrated = ed.hydrated /\ e.upload = ed.upload
          /\ e.made = ed.made /\ e.silent = ed.silent /\ e.refused = ed.refused
          /\ e.fragile = ed.fragile /\ e.fresh = ed.fresh
      BY <1>1 DEF Published, Editors
    <3> HIDE DEF e
    <3>3. CASE ed' = e
      BY <1>1, <2>1, <2>3, <3>2, <3>3, AnswerKeeps
    <3>4. CASE kind # "blocks" /\ ed' = InDraft(e)
      <4>1. /\ ed' \in Editors(ed.open) /\ ed'.open = ed.open
            /\ UNCHANGED <<ed.value, ed.hydrated, ed.upload, ed.made, ed.silent, ed.fragile,
                           ed.fresh>>
            /\ ed'.allow
        <5>1. /\ InDraft(e) \in Editors(ed.open)
              /\ InDraft(e).value = e.value /\ InDraft(e).made = e.made
              /\ InDraft(e).fragile = e.fragile /\ InDraft(e).allow = e.allow
              /\ InDraft(e).hydrated = e.hydrated /\ InDraft(e).upload = e.upload
              /\ InDraft(e).fresh = e.fresh /\ InDraft(e).silent = e.silent
          BY <3>2, InDraftHolds
        <5> QED
          BY <3>2, <3>4, <5>1 DEF Editors
      <4> QED
        BY <1>1, <2>1, <2>3, <3>4, <4>1, AnswerKeeps
    <3> QED
      BY <3>1, <3>3, <3>4
  <2>4. CASE ~save.mine /\ ed' # Closed
    <3> DEFINE fragile == ed.fragile \/ save.slot = ed.open
    <3>1. \/ ed' = ed /\ ~Editing
          \/ ed' = [ed EXCEPT !.fragile = fragile]
          \/ ed' = [ed EXCEPT !.blocked = TRUE, !.fragile = fragile]
      BY <1>3, <2>4 DEF LandSave, AfterOrphan
    <3>2. fragile \in BOOLEAN
      OBVIOUS
    <3>3. CASE ed' = ed /\ ~Editing
      <4>1. save.slot # ed.open
        BY <3>3 DEF Editing, EditorInv, TypeInv, SaveCalls
      <4> QED
        BY <1>1, <2>1, <3>3, <4>1, AnswerKeeps
    <3>4. CASE \/ ed' = [ed EXCEPT !.fragile = fragile]
               \/ ed' = [ed EXCEPT !.blocked = TRUE, !.fragile = fragile]
      <4> HIDE DEF fragile
      <4>1. /\ ed' \in Editors(ed.open) /\ ed'.open = ed.open /\ ed'.fragile = fragile
            /\ UNCHANGED <<ed.value, ed.kept, ed.touched, ed.typed, ed.allow, ed.timer,
                           ed.hydrated, ed.upload, ed.made, ed.silent, ed.refused, ed.fresh>>
        BY <1>1, <3>2, <3>4 DEF Editors
      <4>2. /\ ed.fragile => ed'.fragile
            /\ save.slot = ed.open => ed'.fragile
        BY <4>1 DEF fragile
      <4> QED
        BY <1>1, <2>1, <4>1, <4>2, AnswerKeeps
    <3> QED
      BY <3>1, <3>3, <3>4
  <2> QED
    BY <2>2, <2>3, <2>4
<1> QED
  BY <1>2, <1>3

-----------------------------------------------------------------------------
(* The list of sale pages. *)

LEMMA PixelsKeep ==
  ASSUME EditorAssumption, EditorInv, OpenPixelSwitch \/ SavePixels \/ Duplicate
  PROVE  EditorInv'
<1>1. /\ UNCHANGED <<kind, unheard, stored, created, list, drafts>>
      /\ ed.open = "list" /\ ~Editing /\ ed \in Editors("list") /\ save \in SaveCalls
      /\ edits \in Nat /\ saves \in Nat
  BY DEF OpenPixelSwitch, SavePixels, Duplicate, Choosing, Editing, Slots, EditorInv, TypeInv
<1>2. CASE OpenPixelSwitch
  <2> DEFINE upload == <<Listed>>
             fresh == Vouched(list) /\ ~unheard /\ save.at = "no"
  <2>1. /\ ed' = [ed EXCEPT !.upload = upload, !.fresh = fresh]
        /\ UNCHANGED <<save, edits, saves>>
    BY <1>2 DEF OpenPixelSwitch
  <2>2. fresh \in BOOLEAN /\ upload \in Uploads("list") /\ upload[1] = Listed
    BY ListedHolds DEF Uploads, Maybe
  <2> HIDE DEF upload, fresh
  <2>3. /\ ed' \in Editors("list") /\ ed'.open = "list"
        /\ ed'.upload = upload /\ ed'.fresh = fresh
    BY <1>1, <2>1, <2>2 DEF Editors
  <2>4. ed'.fresh => save.at = "no" /\ ed'.upload[1] = stored
    BY <2>2, <2>3, ListedHolds DEF fresh
  <2>5. TypeInv' /\ ListInv' /\ OldInv'
    BY <1>1, <2>1, <2>3 DEF EditorInv, TypeInv, ListInv, OldInv
  <2>6. SaveInv' /\ FormInv' /\ DraftInv'
    BY <1>1, <2>1, <2>3, SafeStays DEF EditorInv, SaveInv, FormInv, DraftInv, Editing, Slots
  <2>7. PageInv'
    BY <1>1, <2>1, <2>3, <2>4 DEF EditorInv, PageInv, NothingOverwritten, Choosing
  <2> QED
    BY <2>5, <2>6, <2>7 DEF EditorInv
<1>3. CASE SavePixels
  <2> DEFINE page == [ed.upload[1] EXCEPT !.blocks = @ \cup {edits'}]
             upload == <<page>>
             call == [NoSave EXCEPT !.at = "sent", !.how = "pixels", !.fresh = ed.fresh,
                                    !.value = page]
  <2>1. /\ ed' = [ed EXCEPT !.upload = upload] /\ save' = call /\ save.at = "no"
        /\ edits' = edits + 1 /\ saves' = saves + 1 /\ edits < MaxEdits /\ ed.upload # <<>>
    BY <1>3 DEF SavePixels, Choosing
  <2>2. edits' \in Nat /\ edits' \in Ids
    BY <1>1, <2>1 DEF EditorAssumption, Ids
  <2>3. page \in Content /\ Edits(ed.upload[1]) \subseteq Edits(page)
    BY <1>1, <2>1, <2>2 DEF Editors, Uploads, Maybe, Content, Edits
  <2> HIDE DEF page
  <2>4. upload \in Uploads("list") /\ upload[1] = page
    BY <2>3 DEF Uploads, Maybe
  <2>5. /\ call \in SaveCalls /\ call.at = "sent" /\ call.how = "pixels" /\ call.slot = "page"
        /\ call.value = page /\ ~call.mine /\ call.fresh = ed.fresh
    BY <1>1, <2>3, BlankHolds DEF NoSave, SaveCalls, Slots, Editors
  <2> HIDE DEF upload, call
  <2>6. /\ ed' \in Editors("list") /\ ed'.open = "list"
        /\ ed'.upload = upload /\ ed'.fresh = ed.fresh
    BY <1>1, <2>1, <2>4 DEF Editors
  <2>7. TypeInv' /\ ListInv' /\ OldInv'
    BY <1>1, <2>1, <2>2, <2>5, <2>6 DEF EditorInv, TypeInv, ListInv, OldInv
  <2>8. SaveInv' /\ FormInv' /\ DraftInv'
    BY <1>1, <2>1, <2>5, <2>6 DEF SaveInv, FormInv, DraftInv, Editing, Slots
  <2>9. ed.fresh => Edits(stored) \subseteq Edits(page)
    BY <1>1, <2>1, <2>3 DEF EditorInv, PageInv, Choosing
  <2>10. PageInv'
    BY <1>1, <2>1, <2>4, <2>5, <2>6, <2>9 DEF PageInv, NothingOverwritten, Choosing
  <2> QED
    BY <2>7, <2>8, <2>10 DEF EditorInv
<1>4. CASE Duplicate
  <2> DEFINE call == [NoSave EXCEPT !.at = "sent", !.how = "copy", !.slot = "new",
                                    !.value = Listed]
  <2>1. /\ UNCHANGED <<ed, edits>> /\ save' = call /\ save.at = "no" /\ saves' = saves + 1
        /\ ~Choosing
    BY <1>4 DEF Duplicate
  <2>2. /\ call \in SaveCalls /\ call.at = "sent" /\ call.how = "copy" /\ call.slot = "new"
        /\ ~call.mine
    BY ListedHolds DEF NoSave, SaveCalls, Slots
  <2> HIDE DEF call
  <2>3. TypeInv' /\ ListInv' /\ OldInv'
    BY <1>1, <2>1, <2>2 DEF EditorInv, TypeInv, ListInv, OldInv
  <2>4. SaveInv' /\ FormInv' /\ DraftInv'
    BY <1>1, <2>1, <2>2 DEF SaveInv, FormInv, DraftInv, Editing
  <2>5. PageInv'
    BY <1>1, <2>1, <2>2 DEF PageInv, NothingOverwritten, Choosing
  <2> QED
    BY <2>3, <2>4, <2>5 DEF EditorInv
<1> QED
  BY <1>2, <1>3, <1>4

-----------------------------------------------------------------------------
LEMMA EditorNextKeeps ==
  ASSUME EditorAssumption, EditorInv, [EditorNext]_editorVars
  PROVE  EditorInv'
<1>1. CASE UNCHANGED editorVars
  BY <1>1, ListKeeps DEF editorVars, EditorInv, TypeInv, ListInv
<1>2. CASE Leave
  BY <1>2, FlagStepKeeps, LeaveStepKeeps
<1>3. CASE \E publish \in BOOLEAN : SubmitBlocks(publish) \/ SubmitClassic(publish)
  BY <1>3, SubmitKeeps
<1>4. CASE \E slot \in Slots : OpenBlocks(slot) \/ OpenClassic(slot)
  BY <1>4, OpenKeeps
<1> QED
  BY <1>1, <1>2, <1>3, <1>4, FetchKeeps, LandListKeeps, FlagStepKeeps, AutoSaveKeeps,
     AutoSaveFailsKeeps, LeaveStepKeeps, EditStepKeeps, ServerSavesKeeps, LandKeeps, SaveFailsKeeps, PixelsKeep
     DEF EditorNext

LEMMA EditorAlways == EditorSpec => []EditorInv
  BY EditorInitially, EditorNextKeeps, EditorAssumption, PTL DEF EditorSpec

(* No edit disappears unasked: an editor that lets its user go without the *)
(* prompt (useBlocker) holds none that is not stored, whatever is saved,   *)
(* uploaded and fetched in between; fragile edits and removals of the hero *)
(* image apart.                                                            *)
THEOREM EditsAreKept == EditorSpec => []NothingLostUnasked
  BY EditorAlways, EditorInvSuffices, PTL

(* A save of an editor or of the pixel dialog that began with the page as  *)
(* it was, and not with an old draft, takes nothing off it (the            *)
(* invalidation of use-sale-pages.ts); fragile edits apart.                *)
THEOREM SavesAddUp == EditorSpec => []NothingOverwritten
  BY EditorAlways, EditorInvSuffices, PTL

(* The draft of the block editor is what it shows once its two seconds are *)
(* over (use-auto-save-draft.ts and its caller), unless the browser        *)
(* refused to store it; fragile edits apart.                               *)
THEOREM DraftsKeepUp == EditorSpec => []DraftIsCurrent
  BY EditorAlways, EditorInvSuffices, PTL

-----------------------------------------------------------------------------
(* The types, which need more than TypeInv: the list never counts more     *)
(* pages than there were saves, and nothing of an editor outlives it.      *)

Counted == [page : Content, count : 0 .. MaxSaves]

CountInv ==
  /\ list \in Entries(Counted)
  /\ Len(created) <= saves /\ saves <= MaxSaves
  /\ save.at = "sent" => Len(created) < saves

ClosedInv == ed.open = "list" => [ed EXCEPT !.upload = <<>>, !.fresh = FALSE] = Closed

LEMMA EditorTypeSuffices == EditorInv /\ CountInv /\ ClosedInv => EditorTypeOK
<1> SUFFICES ASSUME EditorInv, CountInv, ClosedInv PROVE EditorTypeOK
  OBVIOUS
<1>1. EntryOK(list, [page : Content, count : 0 .. MaxSaves])
  BY EntriesAreOK DEF CountInv, Counted
<1>2. \A s \in Slots : drafts[s] = <<>> \/ drafts[s] \in Content \X BOOLEAN
  BY DEF EditorInv, TypeInv, Drafts
<1>3. ed.value \in Content /\ ed.kept \in Content /\ ed.open \in {"list"} \cup Slots
  BY DEF EditorInv, TypeInv, Editors
<1>4. save.at \in {"no", "sent", "stored"} /\ (save.mine => save.slot = ed.open)
  BY DEF EditorInv, TypeInv, SaveCalls, SaveInv
<1> QED
  BY <1>1, <1>2, <1>3, <1>4 DEF EditorTypeOK, ClosedInv, EditorInv, TypeInv

LEMMA ClosedIsBare == [Closed EXCEPT !.upload = <<>>, !.fresh = FALSE] = Closed
<1>1. \A e \in Editors("list") : e.upload = <<>> /\ e.fresh = FALSE
        => [e EXCEPT !.upload = <<>>, !.fresh = FALSE] = e
  BY DEF Editors
<1>2. Closed.fresh = FALSE
  BY DEF Closed
<1> QED
  BY <1>1, <1>2, ClosedHolds

LEMMA CountInitially == EditorAssumption /\ EditorInit => CountInv /\ ClosedInv
<1> SUFFICES ASSUME EditorAssumption, EditorInit PROVE CountInv /\ ClosedInv
  OBVIOUS
<1>1. NoEntry \in Entries(Counted)
  BY DEF NoEntry, Entries, Shapes, Maybe
<1>2. CountInv
  BY <1>1 DEF CountInv, EditorInit, EditorAssumption, NoSave
<1>3. ClosedInv
  BY ClosedIsBare DEF ClosedInv, EditorInit
<1> QED
  BY <1>2, <1>3

(* The fetches, the invalidations and the saves; nothing else touches the  *)
(* list, the pages created and the save, but for whose save it is.         *)
LEMMA OthersLeave ==
  ASSUME EditorAssumption, EditorInv, [EditorNext]_editorVars
  PROVE  \/ AskList \/ LandList \/ ListFails \/ ServerSaves \/ LandSave \/ LandListSave
         \/ UNCHANGED list /\ \E publish \in BOOLEAN :
              SubmitBlocks(publish) \/ SubmitClassic(publish) \/ SavePixels \/ Duplicate
         \/ UNCHANGED <<list, created, saves>> /\ save'.at \in {save.at, "no"}
<1>0. save \in SaveCalls
  BY DEF EditorInv, TypeInv
<1>1. CASE UNCHANGED editorVars
  BY <1>1 DEF editorVars
<1>2. CASE \/ EditBlocks \/ ChooseTemplate \/ EditLists \/ EditStyle \/ TogglePixel
           \/ EditInput \/ TypeInput \/ RemoveHeroImage
           \/ LandBlockImage \/ LandImage \/ LandHeroImage \/ LandStyleImage
  BY <1>2, EditStepKeeps
<1>3. CASE \E slot \in Slots : OpenBlocks(slot) \/ OpenClassic(slot)
  BY <1>0, <1>3 DEF OpenBlocks, OpenClassic, SaveCalls
<1>4. CASE \/ StartUpload \/ UploadFails \/ AutoSave \/ AutoSaveFails \/ OpenPixelSwitch
           \/ ClosePixelSwitch \/ CancelLeave \/ CloseDialog \/ SaveFails
  BY <1>4 DEF StartUpload, UploadFails, AutoSave, AutoSaveFails, OpenPixelSwitch,
              ClosePixelSwitch, CancelLeave, CloseDialog, SaveFails, NoSave
<1>5. CASE Leave \/ ConfirmLeave \/ BackToList
  BY <1>0, <1>5 DEF Leave, ConfirmLeave, BackToList, Left, SaveCalls
<1>6. CASE \/ SavePixels \/ Duplicate
           \/ \E publish \in BOOLEAN : SubmitBlocks(publish) \/ SubmitClassic(publish)
  BY <1>6 DEF SavePixels, Duplicate, SubmitBlocks, SubmitClassic, Submit
<1> QED
  BY <1>1, <1>2, <1>3, <1>4, <1>5, <1>6 DEF EditorNext

LEMMA CountKeeps ==
  ASSUME EditorAssumption, EditorInv, CountInv, [EditorNext]_editorVars
  PROVE  CountInv'
<1> DEFINE answer == [page |-> stored, count |-> Len(created)]
<1>1. /\ list \in Entries(Counted) /\ saves \in Nat /\ MaxSaves \in Nat
      /\ created \in Seq(Content) /\ save \in SaveCalls /\ Len(created) \in Nat
      /\ Len(created) <= saves /\ saves <= MaxSaves
      /\ save.at = "sent" => Len(created) < saves
  BY DEF CountInv, EditorInv, TypeInv, EditorAssumption
<1>2. CASE AskList
  <2>1. answer \in Counted
    BY <1>1 DEF Counted, EditorInv, TypeInv
  <2>2. list' = Asked(list, answer) /\ UNCHANGED <<created, save, saves>>
    BY <1>2 DEF AskList
  <2> HIDE DEF answer
  <2>3. list' \in Entries(Counted)
    BY <1>1, <2>1, <2>2, EntryMoves
  <2> QED
    BY <1>1, <2>2, <2>3 DEF CountInv
<1>3. CASE LandList \/ ListFails
  <2>1. list' \in {Landed(list), Failed(list)} /\ UNCHANGED <<created, save, saves>>
    BY <1>3 DEF LandList, ListFails
  <2>2. list' \in Entries(Counted)
    BY <1>1, <2>1, EntryMoves
  <2> QED
    BY <1>1, <2>1, <2>2 DEF CountInv
<1>4. CASE LandSave \/ LandListSave
  <2>0. NoSave.at = "no"
    BY DEF NoSave
  <2>1. list' = Outdated(list, TRUE) /\ save'.at = "no" /\ UNCHANGED <<created, saves>>
    BY <1>4, <2>0 DEF LandSave, LandListSave, Invalidate
  <2>2. list' \in Entries(Counted)
    BY <1>1, <2>1, OutdatedMoves
  <2> QED
    BY <1>1, <2>1, <2>2 DEF CountInv
<1>5. CASE ServerSaves
  <2>1. /\ UNCHANGED <<list, saves>> /\ save.at = "sent" /\ save'.at = "stored"
        /\ created' = created \/ created' = Append(created, save.value)
    BY <1>1, <1>5 DEF ServerSaves, SaveCalls
  <2>2. Len(created') \in {Len(created), Len(created) + 1}
    BY <1>1, <2>1 DEF SaveCalls
  <2> QED
    BY <1>1, <2>1, <2>2 DEF CountInv
<1>6. CASE UNCHANGED list /\ \E publish \in BOOLEAN :
             SubmitBlocks(publish) \/ SubmitClassic(publish) \/ SavePixels \/ Duplicate
  <2>1. UNCHANGED <<list, created>> /\ saves < MaxSaves /\ saves' = saves + 1
    BY <1>6 DEF SubmitBlocks, SubmitClassic, Submit, SavePixels, Duplicate
  <2> QED
    BY <1>1, <2>1 DEF CountInv
<1>7. CASE UNCHANGED <<list, created, saves>> /\ save'.at \in {save.at, "no"}
  BY <1>1, <1>7 DEF CountInv
<1> QED
  BY <1>2, <1>3, <1>4, <1>5, <1>6, <1>7, OthersLeave

(* In the list the dialog of the pixels is all that is kept of an editor.  *)
LEMMA ClosedKeeps ==
  ASSUME EditorAssumption, EditorInv, ClosedInv, [EditorNext]_editorVars
  PROVE  ClosedInv'
<1>1. /\ ed \in Editors(ed.open) /\ ed.open \in Slots \cup {"list"}
      /\ ed.open = "list" => ~ed.blocked /\ ~ed.dialog
  <2>1. ed \in Editors(ed.open) /\ ed.open \in Slots \cup {"list"}
    BY DEF EditorInv, TypeInv
  <2>2. /\ [ed EXCEPT !.upload = <<>>, !.fresh = FALSE].blocked = ed.blocked
        /\ [ed EXCEPT !.upload = <<>>, !.fresh = FALSE].dialog = ed.dialog
    BY <2>1 DEF Editors
  <2>3. ~Closed.blocked /\ ~Closed.dialog
    BY DEF Closed
  <2> QED
    BY <2>1, <2>2, <2>3 DEF ClosedInv
<1>2. [Closed EXCEPT !.upload = <<>>, !.fresh = FALSE] = Closed
  BY ClosedIsBare
<1>3. CASE ed' = ed
  BY <1>3 DEF ClosedInv
<1>4. CASE ed' = Closed
  BY <1>2, <1>4 DEF ClosedInv
<1>5. CASE ed'.open \in Slots
  BY <1>5 DEF ClosedInv, Slots
<1>6. ASSUME Editing, ed'.open = ed.open PROVE ClosedInv'
  BY <1>5, <1>6 DEF Editing
<1>7. CASE \/ EditBlocks \/ ChooseTemplate \/ EditLists \/ EditStyle \/ TogglePixel
           \/ EditInput \/ TypeInput \/ RemoveHeroImage
           \/ LandBlockImage \/ LandImage \/ LandHeroImage \/ LandStyleImage
  BY <1>5, <1>7, EditStepKeeps DEF Editing
<1>8. CASE \E slot \in Slots : OpenBlocks(slot) \/ OpenClassic(slot)
  <2>1. PICK slot \in Slots : \E restored : ed' = Opened(slot, restored)
    BY <1>8 DEF OpenBlocks, OpenClassic
  <2>2. \A restored : Opened(slot, restored).open = slot
    BY DEF Opened, Closed
  <2> QED
    BY <1>5, <2>1, <2>2
<1>9. CASE Leave \/ ConfirmLeave \/ BackToList \/ ClosePixelSwitch
  <2>1. ed' = Closed \/ (Editing /\ ed' = [ed EXCEPT !.blocked = TRUE])
    BY <1>9 DEF Leave, ConfirmLeave, BackToList, ClosePixelSwitch, Left
  <2>2. [ed EXCEPT !.blocked = TRUE].open = ed.open
    BY <1>1 DEF Editors
  <2> QED
    BY <1>4, <1>6, <2>1, <2>2
<1>10. CASE \/ StartUpload \/ UploadFails \/ AutoSave \/ AutoSaveFails \/ CancelLeave
            \/ CloseDialog
  <2>1. Editing
    <3>1. Editing \/ ed.blocked \/ ed.dialog
      BY <1>10 DEF StartUpload, UploadFails, AutoSave, AutoSaveFails, CancelLeave, CloseDialog
    <3> QED
      BY <1>1, <3>1 DEF Editing
  <2>2. ed'.open = ed.open
    BY <1>1, <1>10 DEF StartUpload, UploadFails, AutoSave, AutoSaveFails, CancelLeave,
                      CloseDialog, Editors
  <2> QED
    BY <1>6, <2>1, <2>2
<1>11. CASE LandList
  <2>1. ed' = ed \/ (Editing /\ ed'.open = ed.open)
    BY <1>1, <1>11 DEF LandList, Hydrate, Editing, Slots, Editors
  <2> QED
    BY <1>3, <1>6, <2>1
<1>12. CASE LandSave
  <2>1. save.mine => Editing
    BY DEF EditorInv, SaveInv
  <2>2. ed' \in {ed, Closed} \/ (Editing /\ ed'.open = ed.open)
    <3>1. CASE save.mine
      <4>1. ed' = Closed \/ ed' \in {Published(ed), InDraft(Published(ed))}
        BY <1>12, <3>1 DEF LandSave, AfterBlocks, AfterClassic
      <4>2. Published(ed) \in Editors(ed.open)
        BY <1>1 DEF Published, Editors
      <4>3. InDraft(Published(ed)) \in Editors(ed.open)
        BY <4>2, InDraftHolds
      <4>4. \A e \in Editors(ed.open) : e.open = ed.open
        BY DEF Editors
      <4> QED
        BY <2>1, <3>1, <4>1, <4>2, <4>3, <4>4
    <3>2. CASE ~save.mine
      <4> DEFINE fragile == ed.fragile \/ save.slot = ed.open
      <4>1. \/ ed' \in {ed, Closed}
            \/ Editing /\ ed' = [ed EXCEPT !.fragile = fragile]
            \/ Editing /\ ed' = [ed EXCEPT !.blocked = TRUE, !.fragile = fragile]
        BY <1>12, <3>2 DEF LandSave, AfterOrphan
      <4> HIDE DEF fragile
      <4>2. /\ [ed EXCEPT !.fragile = fragile].open = ed.open
            /\ [ed EXCEPT !.blocked = TRUE, !.fragile = fragile].open = ed.open
        BY <1>1 DEF Editors
      <4> QED
        BY <4>1, <4>2
    <3> QED
      BY <3>1, <3>2
  <2> QED
    BY <1>3, <1>4, <1>6, <2>2
<1>13. CASE OpenPixelSwitch
  <2>1. /\ ed.open = "list"
        /\ ed' = [ed EXCEPT !.upload = <<Listed>>,
                            !.fresh = Vouched(list) /\ ~unheard /\ save.at = "no"]
    BY <1>13 DEF OpenPixelSwitch
  <2>2. [ed' EXCEPT !.upload = <<>>, !.fresh = FALSE] = [ed EXCEPT !.upload = <<>>, !.fresh = FALSE]
    BY <1>1, <2>1 DEF Editors
  <2> QED
    BY <2>1, <2>2 DEF ClosedInv
<1>14. CASE SavePixels
  <2>1. PICK page : ed.open = "list" /\ ed' = [ed EXCEPT !.upload = <<page>>]
    BY <1>14 DEF SavePixels, Choosing
  <2>2. [ed' EXCEPT !.upload = <<>>, !.fresh = FALSE] = [ed EXCEPT !.upload = <<>>, !.fresh = FALSE]
    BY <1>1, <2>1 DEF Editors
  <2> QED
    BY <2>1, <2>2 DEF ClosedInv
<1>15. CASE \/ AskList \/ ListFails \/ Duplicate \/ ServerSaves \/ SaveFails \/ LandListSave
            \/ \E publish \in BOOLEAN : SubmitBlocks(publish) \/ SubmitClassic(publish)
            \/ UNCHANGED editorVars
  <2>1. ed' \in {ed, Closed}
    BY <1>15 DEF AskList, ListFails, Duplicate, ServerSaves, SaveFails, LandListSave,
                 SubmitBlocks, SubmitClassic, Submit, editorVars
  <2> QED
    BY <1>3, <1>4, <2>1
<1> QED
  BY <1>7, <1>8, <1>9, <1>10, <1>11, <1>12, <1>13, <1>14, <1>15 DEF EditorNext

(* The list counts no more pages than were saved and every form, draft and *)
(* save is of the kind its page is; back in the list, nothing of an editor *)
(* is kept (the state of BlockEditorPage and SalePageEditorPage).          *)
THEOREM EditorTypeCorrect == EditorSpec => []EditorTypeOK
<1>1. EditorInv /\ CountInv /\ ClosedInv /\ [EditorNext]_editorVars
        => (EditorInv /\ CountInv /\ ClosedInv)'
  BY EditorAssumption, EditorNextKeeps, CountKeeps, ClosedKeeps
<1> QED
  BY <1>1, EditorAssumption, EditorInitially, CountInitially, EditorTypeSuffices, PTL
     DEF EditorSpec
=============================================================================
