------------------------------- MODULE Editor -------------------------------
(***************************************************************************)
(* The two sale page editors of the dashboard: BlockEditorPage (pages of   *)
(* version 2) and SalePageEditorPage (the classic form), with the hooks    *)
(* they share: the cached list of sale pages, the draft saved to the local *)
(* storage two seconds after a change, the prompt for unsaved changes and  *)
(* the upload of images.                                                   *)
(* Content is the set of edits it includes, so that a lost edit shows.     *)
(* One browser tab and one page to edit, besides the pages it creates.     *)
(***************************************************************************)
EXTENDS Integers, Sequences, FiniteSets, QueryCache

CONSTANTS MaxEdits, MaxSaves,  \* bounds
          MaxInputs            \* and on both together

ASSUME EditorAssumption == MaxEdits \in Nat /\ MaxSaves \in Nat

VARIABLES kind,     \* "blocks" or "classic": which editor the pages belong to
          stored,   \* the page on the server
          created,  \* the pages created since, as a sequence of contents
          list,     \* query ['sale-pages']: the page and the number of others
          drafts,   \* localStorage, by slot: nothing, or a content and whether
                    \* it is an old one
          ed,       \* the mounted editor
          save,     \* the create or update under way
          unheard,  \* a save was stored and its answer lost
          edits, saves  \* counted for the bounds

editorVars == <<kind, stored, created, list, drafts, ed, save, unheard, edits, saves>>

\* blocks: the blocks, or the classic form's features, images, style, pixels;
\* fields: the inputs.  Edit 0 stands for what the page began with.
Slots   == {"page", "new"}
Ids     == 0 .. MaxEdits
Content == [blocks : SUBSET Ids, fields : SUBSET Ids]
Blank   == [blocks |-> {}, fields |-> {}]
Edits(c) == c.blocks \cup c.fields

Closed == [open |-> "list", value |-> Blank, kept |-> Blank, touched |-> FALSE,
           typed |-> FALSE, allow |-> FALSE, timer |-> FALSE, dialog |-> FALSE,
           blocked |-> FALSE, hydrated |-> FALSE, upload |-> <<>>,
           made |-> {}, silent |-> {}, refused |-> FALSE,
           fragile |-> FALSE, fresh |-> FALSE]
NoSave == [at |-> "no", how |-> "editor", slot |-> "page", value |-> Blank, publish |-> FALSE,
           mine |-> FALSE, fresh |-> FALSE]

IsDirty == ed.touched \/ ed.typed
Editing == ed.open \in Slots
PromptsSlip == ed.touched /\ ~ed.allow
\* useBlocker: whether a navigation is held up.
Prompts == IsDirty /\ ~ed.allow
Busy    == save.at # "no" /\ save.mine          \* isSubmitting
Room    == edits + saves < MaxInputs

-----------------------------------------------------------------------------
\* The list of sale pages, fetched while any of these pages is mounted.

AskList ==
  /\ Wanted(list)
  /\ list' = Asked(list, [page |-> stored, count |-> Len(created)])
  /\ UNCHANGED <<kind, unheard, stored, created, drafts, ed, save, edits, saves>>

\* The classic editor fills its form when the page arrives, once.  The style an
\* upload under way will land on is that of the empty form: fragile as well.
Hydrate(e, page) ==
  IF kind = "classic" /\ e.open = "page" /\ ~e.hydrated
  THEN [e EXCEPT !.value = page, !.kept = page, !.typed = FALSE, !.hydrated = TRUE,
                 !.timer = TRUE, !.fragile = @ \/ e.upload # <<>>,
                 !.fresh = ~unheard /\ save.at = "no" /\ ~list.outrun]
  ELSE e

LandList ==
  /\ ~Idle(list)
  /\ list' = Landed(list)
  /\ ed' = Hydrate(ed, list.answer[1].page)
  /\ UNCHANGED <<kind, unheard, stored, created, drafts, save, edits, saves>>

ListFails ==
  /\ ~Idle(list)
  /\ list' = Failed(list)
  /\ UNCHANGED <<kind, unheard, stored, created, drafts, ed, save, edits, saves>>

Listed == IF Has(list) THEN list.data[1].page ELSE Blank

-----------------------------------------------------------------------------
\* Opening an editor, with the draft it restores.

\* Of a page the blocks are compared, and not the style and the pixels that are
\* among them here: whether a draft that differs is restored is left open.
RestorableBlocks(slot) == slot = "page" => drafts[slot][1].blocks # Listed.blocks
RestorableClassic(slot) == slot = "new" /\ drafts[slot][1].fields # {}

Restorable(slot) ==
  /\ drafts[slot] # <<>>
  /\ \/ kind = "blocks" /\ RestorableBlocks(slot)
     \/ kind = "classic" /\ RestorableClassic(slot)

\* An editor begins with the page as it is (fresh) on a list that was not stale,
\* with no save under way or unheard of, unless it restores an old draft.
Opened(slot, restored) ==
  LET base  == IF slot = "page" THEN Listed ELSE Blank
      value == IF restored THEN drafts[slot][1] ELSE base
  IN  [Closed EXCEPT !.open = slot, !.value = value, !.kept = value,
         !.hydrated = (slot = "new" \/ Has(list)),
         !.timer = (value # base \/ (kind = "classic" /\ slot = "page" /\ Has(list))),
         !.fresh = Vouched(list) /\ ~unheard /\ save.at = "no" /\ ~(restored /\ drafts[slot][2])]

\* The wrapper of the block editor waits for the list.
OpenBlocks(slot) ==
  /\ kind = "blocks" /\ ed.open = "list"
  /\ slot = "page" => Has(list)
  /\ \E restored \in BOOLEAN :
       /\ restored => Restorable(slot)
       /\ slot = "new" /\ Restorable(slot) => restored
       /\ ed' = Opened(slot, restored)
  /\ save' = [save EXCEPT !.mine = FALSE]
  /\ UNCHANGED <<kind, unheard, stored, created, list, drafts, edits, saves>>

\* The classic editor mounts at once and is filled later.
OpenClassic(slot) ==
  /\ kind = "classic" /\ ed.open = "list"
  /\ ed' = Opened(slot, Restorable(slot))
  /\ save' = [save EXCEPT !.mine = FALSE]
  /\ UNCHANGED <<kind, unheard, stored, created, list, drafts, edits, saves>>

-----------------------------------------------------------------------------
\* Editing.  An edit while a save is under way, after a publish, before the
\* form is filled or, in a list or the style, during an upload is a fragile one;
\* so are the edits of an editor whose draft the save of an earlier one clears,
\* and those that follow an upload begun before the form was filled.

Fragile == Busy \/ ed.allow \/ ~ed.hydrated

\* The editor e after the edit numbered edits' left the content value in it.
Edited(e, value, fragile) ==
  [e EXCEPT !.value = value, !.made = @ \cup {edits'}, !.fragile = @ \/ fragile]

InDraft(e) == [e EXCEPT !.kept = e.value, !.timer = TRUE]

Edit(with) ==
  /\ Editing /\ ~ed.blocked /\ edits < MaxEdits /\ Room
  /\ edits' = edits + 1
  /\ ed' = with
  /\ UNCHANGED <<kind, unheard, stored, created, list, drafts, save, saves>>

WithBlock == [ed.value EXCEPT !.blocks = @ \cup {edits'}]
WithField == [ed.value EXCEPT !.fields = @ \cup {edits'}]

\* During an upload: what it lands on is a list as it was when it began.
FragileList == Fragile \/ ed.upload # <<>>

EditList == Edit([InDraft(Edited(ed, WithBlock, FragileList)) EXCEPT !.touched = TRUE])

\* The blocks, and the template a new page starts from.
EditBlocks == kind = "blocks" /\ EditList
ChooseTemplate == kind = "blocks" /\ ed.open = "new" /\ ed.value.blocks = {} /\ EditList

\* Features and images of the classic form.
EditLists == kind = "classic" /\ EditList

\* Both editors have the style and the pixels.
EditStyle   == EditList
TogglePixel == EditList

CapturesSlip == ~ed.touched
\* Every input of the block editor is among the dependencies of its draft data.
Captures == TRUE

EditInput ==
  LET e == Edited(ed, WithField, Fragile)
  IN  /\ kind = "blocks"
      /\ Edit([(IF Captures THEN InDraft(e) ELSE e) EXCEPT !.touched = TRUE])

\* The classic form computes its draft data again only when isDirty changes,
\* with the first input.
TypeInput ==
  LET e == Edited(ed, WithField, Fragile)
  IN  /\ kind = "classic"
      /\ Edit([(IF ed.typed THEN e ELSE InDraft(e)) EXCEPT !.typed = TRUE])

\* The button on the hero image: the form does not take it for a change.
RemoveHeroImage ==
  /\ kind = "classic"
  /\ Edit([Edited(ed, WithField, Fragile) EXCEPT !.silent = @ \cup {edits'}])

StartUpload ==
  /\ Editing /\ ~ed.blocked /\ ed.upload = <<>> /\ edits < MaxEdits /\ Room
  /\ ed' = [ed EXCEPT !.upload = <<ed.value.blocks>>]
  /\ UNCHANGED <<kind, unheard, stored, created, list, drafts, save, edits, saves>>

\* The handler of the list of blocks closes over the blocks it started with.
LandBlockImage ==
  /\ kind = "blocks" /\ ed.upload # <<>> /\ Editing /\ edits < MaxEdits /\ Room
  /\ edits' = edits + 1
  /\ LET value == [ed.value EXCEPT !.blocks = ed.upload[1] \cup {edits'}]
     IN  ed' = [InDraft(Edited(ed, value, Fragile)) EXCEPT !.touched = TRUE, !.upload = <<>>]
  /\ UNCHANGED <<kind, unheard, stored, created, list, drafts, save, saves>>

LandImage ==
  /\ kind = "classic" /\ ed.upload # <<>> /\ Editing /\ edits < MaxEdits /\ Room
  /\ edits' = edits + 1
  /\ ed' = [InDraft(Edited(ed, WithBlock, Fragile)) EXCEPT !.touched = TRUE, !.upload = <<>>]
  /\ UNCHANGED <<kind, unheard, stored, created, list, drafts, save, saves>>

\* The hero image is an input, set by the handler: it is in the draft data only
\* if hasUserEdited changes with it.
LandHeroImage ==
  LET e == Edited(ed, WithField, Fragile)
  IN  /\ kind = "classic" /\ ed.upload # <<>> /\ Editing /\ edits < MaxEdits /\ Room
      /\ edits' = edits + 1
      /\ ed' = [(IF ed.touched THEN e ELSE InDraft(e)) EXCEPT !.touched = TRUE, !.upload = <<>>]
      /\ UNCHANGED <<kind, unheard, stored, created, list, drafts, save, saves>>

\* The handler of the style editor closes over the style it started with: which
\* of the edits since then were to the style is left open.
LandStyleImage ==
  /\ ed.upload # <<>> /\ Editing /\ edits < MaxEdits /\ Room
  /\ edits' = edits + 1
  /\ \E lost \in SUBSET (ed.value.blocks \ ed.upload[1]) :
       LET value == [ed.value EXCEPT !.blocks = (@ \ lost) \cup {edits'}]
       IN  ed' = [InDraft(Edited(ed, value, Fragile)) EXCEPT !.touched = TRUE, !.upload = <<>>]
  /\ UNCHANGED <<kind, unheard, stored, created, list, drafts, save, saves>>

UploadFails ==
  /\ Editing /\ ed.upload # <<>>
  /\ ed' = [ed EXCEPT !.upload = <<>>]
  /\ UNCHANGED <<kind, unheard, stored, created, list, drafts, save, edits, saves>>

\* Two seconds without a change of the draft data.  A draft is an old one if
\* its editor did not begin with the page as it was, or had fragile edits.
AutoSave ==
  /\ Editing /\ ed.timer
  /\ drafts' = [drafts EXCEPT ![ed.open] = <<ed.kept, ed.fragile \/ ~ed.fresh>>]
  /\ ed' = [ed EXCEPT !.timer = FALSE, !.refused = FALSE]
  /\ UNCHANGED <<kind, unheard, stored, created, list, save, edits, saves>>

\* The browser refuses to store it, for want of room: the hook says nothing.
AutoSaveFails ==
  /\ Editing /\ ed.timer
  /\ ed' = [ed EXCEPT !.timer = FALSE, !.refused = TRUE]
  /\ UNCHANGED <<kind, unheard, stored, created, list, drafts, save, edits, saves>>

-----------------------------------------------------------------------------
\* Saving.

ValidBlocks  == ed.value.fields # {} /\ ed.value.blocks # {}   \* a name, a block
ValidClassic == ed.value.fields # {}                           \* the schema's inputs

\* One request at a time: a second editor saves once the first one's is done.
Submit(publish) ==
  /\ Editing /\ ~ed.blocked /\ ~ed.dialog /\ save.at = "no" /\ saves < MaxSaves /\ Room
  /\ save' = [at |-> "sent", how |-> "editor", slot |-> ed.open, value |-> ed.value,
              publish |-> publish, mine |-> TRUE, fresh |-> ed.fresh /\ ~ed.fragile]
  /\ saves' = saves + 1
  /\ UNCHANGED <<kind, unheard, stored, created, list, drafts, ed, edits>>

SubmitBlocks(publish)  == kind = "blocks" /\ ValidBlocks /\ Submit(publish)
SubmitClassic(publish) == kind = "classic" /\ ValidClassic /\ Submit(publish)

\* A draft is an old one, too, once the pixels were switched under it.
ServerSaves ==
  /\ save.at = "sent"
  /\ save' = [save EXCEPT !.at = "stored"]
  /\ IF save.slot = "page" THEN stored' = save.value /\ UNCHANGED created
                           ELSE created' = Append(created, save.value) /\ UNCHANGED stored
  /\ drafts' = IF save.how = "pixels" /\ drafts["page"] # <<>>
               THEN [drafts EXCEPT !["page"] = <<@[1], TRUE>>] ELSE drafts
  /\ UNCHANGED <<kind, unheard, list, ed, edits, saves>>

InvalidateSlip == list' = Dropped(list)
\* onSuccess of the mutations.
Invalidate == list' = Outdated(list, TRUE)

ClearDraft(slot) == drafts' = [drafts EXCEPT ![slot] = <<>>]

\* What the handler does to the editor that called it.  A published page stays
\* open under the dialog.
Published(e) == [e EXCEPT !.touched = FALSE, !.allow = TRUE, !.dialog = TRUE, !.blocked = FALSE]

AfterBlocks(publish) == IF publish THEN Published(ed) ELSE Closed

\* hasUserEdited is cleared, and the draft data of the classic form changes again.
AfterClassic(publish) ==
  IF ~publish THEN Closed
  ELSE IF ed.touched THEN InDraft(Published(ed)) ELSE Published(ed)

\* The handler of an editor that was left goes on: a saved draft navigates to
\* the list, from wherever the user has gone, past the prompt of a changed page.
AfterOrphan ==
  IF ~Editing THEN ed
  ELSE IF save.publish THEN [ed EXCEPT !.fragile = @ \/ save.slot = ed.open]
  ELSE IF Prompts
  THEN [ed EXCEPT !.blocked = TRUE, !.fragile = @ \/ save.slot = ed.open]
  ELSE Closed

LandSave ==
  /\ save.at = "stored" /\ save.how = "editor"
  /\ save' = NoSave
  /\ Invalidate
  /\ ClearDraft(save.slot)
  /\ ed' = IF ~save.mine THEN AfterOrphan
           ELSE IF kind = "blocks" THEN AfterBlocks(save.publish) ELSE AfterClassic(save.publish)
  /\ UNCHANGED <<kind, unheard, stored, created, edits, saves>>

\* The request, or its answer, is lost: the editor shows an error.
SaveFails ==
  /\ save.at # "no"
  /\ save' = NoSave
  /\ unheard' = (unheard \/ save.at = "stored")
  /\ UNCHANGED <<kind, stored, created, list, drafts, ed, edits, saves>>

-----------------------------------------------------------------------------
\* The list of sale pages writes pages too: openPixelSwitch keeps the page as
\* the list has it, handlePixelSave sends all of it back with other pixels, and
\* handleDuplicate creates a copy of it.

Choosing == ed.open = "list" /\ ed.upload # <<>>   \* pixelSwitchPage, kept in upload

OpenPixelSwitch ==
  /\ ed.open = "list" /\ ~Choosing /\ Has(list)
  /\ ed' = [ed EXCEPT !.upload = <<Listed>>,
                      !.fresh = Vouched(list) /\ ~unheard /\ save.at = "no"]
  /\ UNCHANGED <<kind, unheard, stored, created, list, drafts, save, edits, saves>>

ClosePixelSwitch ==
  /\ Choosing
  /\ ed' = Closed
  /\ UNCHANGED <<kind, unheard, stored, created, list, drafts, save, edits, saves>>

SavePixels ==
  /\ Choosing /\ save.at = "no" /\ saves < MaxSaves /\ edits < MaxEdits /\ Room
  /\ edits' = edits + 1 /\ saves' = saves + 1
  /\ LET page == [ed.upload[1] EXCEPT !.blocks = @ \cup {edits'}]
     IN  /\ ed' = [ed EXCEPT !.upload = <<page>>]
         /\ save' = [NoSave EXCEPT !.at = "sent", !.how = "pixels", !.fresh = ed.fresh, !.value = page]
  /\ UNCHANGED <<kind, unheard, stored, created, list, drafts>>

Duplicate ==
  /\ ed.open = "list" /\ ~Choosing /\ Has(list) /\ save.at = "no" /\ saves < MaxSaves /\ Room
  /\ saves' = saves + 1
  /\ save' = [NoSave EXCEPT !.at = "sent", !.how = "copy", !.slot = "new", !.value = Listed]
  /\ UNCHANGED <<kind, unheard, stored, created, list, drafts, ed, edits>>

LandListSave ==
  /\ save.at = "stored" /\ save.how # "editor"
  /\ save' = NoSave
  /\ Invalidate
  /\ ed' = IF save.how = "pixels" /\ Choosing THEN Closed ELSE ed
  /\ UNCHANGED <<kind, unheard, stored, created, drafts, edits, saves>>

-----------------------------------------------------------------------------
\* Leaving.  The editor that is left clears its timer; its save goes on.

Left == /\ ed' = Closed
        /\ save' = [save EXCEPT !.mine = FALSE]

Leave ==
  /\ Editing /\ ~ed.blocked /\ ~ed.dialog
  /\ IF Prompts THEN ed' = [ed EXCEPT !.blocked = TRUE] /\ UNCHANGED save ELSE Left
  /\ UNCHANGED <<kind, unheard, stored, created, list, drafts, edits, saves>>

ConfirmLeave ==
  /\ ed.blocked
  /\ Left
  /\ UNCHANGED <<kind, unheard, stored, created, list, drafts, edits, saves>>

CancelLeave ==
  /\ ed.blocked
  /\ ed' = [ed EXCEPT !.blocked = FALSE]
  /\ UNCHANGED <<kind, unheard, stored, created, list, drafts, save, edits, saves>>

\* The dialog of a published page: closed to go on editing, or left by its button.
CloseDialog ==
  /\ ed.dialog
  /\ ed' = [ed EXCEPT !.dialog = FALSE]
  /\ UNCHANGED <<kind, unheard, stored, created, list, drafts, save, edits, saves>>

BackToList ==
  /\ ed.dialog
  /\ Left
  /\ UNCHANGED <<kind, unheard, stored, created, list, drafts, edits, saves>>

-----------------------------------------------------------------------------
EditorInit ==
  /\ kind \in {"blocks", "classic"}
  /\ stored = [blocks |-> {0}, fields |-> {0}] /\ created = <<>>
  /\ list = NoEntry
  /\ drafts = [s \in Slots |-> <<>>]
  /\ ed = Closed /\ save = NoSave
  /\ unheard = FALSE /\ edits = 0 /\ saves = 0

EditorNext ==
  \/ AskList \/ LandList \/ ListFails
  \/ \E slot \in Slots : OpenBlocks(slot) \/ OpenClassic(slot)
  \/ EditBlocks \/ ChooseTemplate \/ EditLists \/ EditStyle \/ TogglePixel
  \/ EditInput \/ TypeInput \/ RemoveHeroImage
  \/ StartUpload \/ LandBlockImage \/ LandImage \/ LandHeroImage \/ LandStyleImage \/ UploadFails
  \/ AutoSave \/ AutoSaveFails
  \/ \E publish \in BOOLEAN : SubmitBlocks(publish) \/ SubmitClassic(publish)
  \/ OpenPixelSwitch \/ ClosePixelSwitch \/ SavePixels \/ Duplicate \/ LandListSave
  \/ ServerSaves \/ LandSave \/ SaveFails
  \/ Leave \/ ConfirmLeave \/ CancelLeave
  \/ CloseDialog \/ BackToList

\* A fetch is begun that is due, and of those begun again and again, by mounts
\* and the user, not every one fails.
EditorSpec == EditorInit /\ [][EditorNext]_editorVars
              /\ WF_editorVars(Due(list) /\ AskList) /\ SF_editorVars(LandList)

-----------------------------------------------------------------------------
\* Properties.

EditorTypeOK ==
  /\ stored \in Content /\ EntryOK(list, [page : Content, count : 0 .. MaxSaves])
  /\ \A s \in Slots : drafts[s] = <<>> \/ drafts[s] \in Content \X BOOLEAN
  /\ ed.open \in {"list"} \cup Slots
  /\ ed.open = "list" => [ed EXCEPT !.upload = <<>>, !.fresh = FALSE] = Closed
  /\ ed.value \in Content /\ ed.kept \in Content
  /\ save.at \in {"no", "sent", "stored"} /\ (save.mine => save.slot = ed.open)

\* Where an edit outlives the editor and the browser.
Safe == Edits(stored) \cup UNION {Edits(created[n]) : n \in 1 .. Len(created)}

\* No edit disappears unasked: an editor that lets its user go without the
\* prompt holds no edit the server does not have.  Apart from the removal of the
\* hero image (silent), which marks nothing as changed and is lost with the
\* editor, and from fragile edits.
NothingLostUnasked ==
  (Editing /\ ~Prompts /\ ~ed.fragile) => (ed.made \ ed.silent) \subseteq Safe

\* An editor or pixel dialog opened on a list that was not stale, with no save
\* under way and none whose answer was lost, never takes an edit off the page: the
\* invalidation after every save lets the next editor start from it, or makes
\* the list it starts from a stale one.  Apart from an editor that restores an
\* old draft, one of before the pixels were switched for example, which does
\* overwrite what was stored since, and from fragile edits.
NothingOverwritten ==
  (save.at = "sent" /\ save.slot = "page" /\ save.fresh)
     => Edits(stored) \subseteq Edits(save.value)

\* Once its two seconds are over, the draft of the block editor is what the
\* editor shows, down to the last keystroke.  Apart from a draft that the
\* browser refused to store, which nobody is told of, and from fragile edits.
DraftIsCurrent ==
  (kind = "blocks" /\ Editing /\ IsDirty /\ ~ed.timer /\ ~ed.refused /\ ~ed.fragile)
     => drafts[ed.open] # <<>> /\ drafts[ed.open][1] = ed.value

\* In the end the list shows what the server holds: the invalidation by a save
\* reaches a list whose fetch was already under way.  Saves still under way,
\* lost answers, a first fetch that a save overtook (late) and a list whose last
\* fetch failed twice (gaveUp), which waits for a mount or the user, apart.
ListCatchesUp ==
  <>[](save.at = "no" /\ ~unheard =>
         \/ list.late \/ list.gaveUp
         \/ Has(list) /\ list.data[1] = [page |-> stored, count |-> Len(created)])
=============================================================================
