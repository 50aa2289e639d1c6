----------------------------- MODULE Extraction -----------------------------
(***************************************************************************)
(* Reading the text of one source: archives, images, and PDFs whose blank   *)
(* pages go through an external OCR command and a cache of its texts       *)
(* (parsing.ts, ocr-cache.ts, ocr.ts).                                     *)
(*                                                                         *)
(* The text of a page is a record that says where it comes from.  A child  *)
(* process may end by itself, be terminated by the timer, by an abort or   *)
(* for its output, ignore that and be killed.                              *)
(***************************************************************************)
EXTENDS OfficeText

CONSTANTS
    MaxPages,          \* MAX_PDF_PAGES
    MaxBatch,          \* MAX_OCR_BATCH_PAGES
    Engines,           \* identities of OCR commands: fingerprint, version, language, resolution
    Pdfs,              \* their numbers of pages and the pages without text of their own
    Decks, Books, Workbooks,
    MaxContents,       \* contents that the PDF has had
    ExtractionEvents   \* what else may happen: "abort", "crash", "ioError", "rewrite"

ASSUME ExtractionAssumption ==
    /\ \A pdf \in Pdfs : pdf.pages \in Nat /\ pdf.blank \subseteq 1 .. pdf.pages
    /\ {MaxPages, MaxBatch, MaxContents} \subseteq Nat \ {0} /\ None \notin Engines
    /\ ExtractionEvents \subseteq {"abort", "crash", "ioError", "rewrite"}

VARIABLES
    content,    \* the number of the present content of the PDF
    ocrCache,   \* the cached texts, by the identity of the page
    reading,    \* the parse of the file
    child       \* the external command

extractionVars == <<content, ocrCache, reading, child>>

NoReading == [phase |-> "idle", kind |-> "archive", checksum |-> 0, blank |-> {}, engine |-> None, batched |-> FALSE,
              texts |-> <<>>, missing |-> {}, got |-> <<>>, regions |-> <<>>,
              aborted |-> FALSE]
NoChild == [state |-> "none", timer |-> FALSE, timedOut |-> FALSE, aborted |-> FALSE,
            large |-> FALSE, code |-> 0, answer |-> <<>>]

\* The text that a PDF has on a page, and the one that an engine reads there.
Native(c, p) == [page |-> p, content |-> c, engine |-> None, whole |-> TRUE]
Read(c, p, e, whole) == [page |-> p, content |-> c, engine |-> e, whole |-> whole]

ExtractionInit == content = 1 /\ ocrCache = <<>> /\ reading = NoReading /\ child = NoChild

To(phase) == reading' = [reading EXCEPT !.phase = phase]
Failing == reading' = [reading EXCEPT !.phase = "failed"] /\ child' = NoChild

-----------------------------------------------------------------------------
(* Operators. *)

\* pdfOcrPageBatches, one batch at a time: the pages less than a batch behind the
\* first that is missing, which are no more than a batch.  Or one page alone.
Batch ==
    {p \in reading.missing :
        \A q \in reading.missing : p - q < IF reading.batched THEN MaxBatch ELSE 1}

\* normalizePdfOcrPages
NormalizedPages(pages) == Ascending(pages)

\* pairOcrPageText: an engine ends every payload with a form feed, or has one
\* between two payloads; what follows the last form feed may be empty.
Paired(pages, payloads) ==
    LET last == Len(payloads)
        kept == IF last = Len(pages) + 1 /\ payloads[last] = None THEN Front(payloads) ELSE payloads
    IN  IF Len(kept) # Len(pages) THEN None
        ELSE [k \in DOMAIN pages |-> [page |-> pages[k], text |-> kept[k]]]

\* extractPdfPages, run by the command that `rgr ocr setup` configures.
Extracted(pages, whole, terminated) ==
    LET sorted == NormalizedPages(pages)
        payloads == [k \in DOMAIN sorted |-> Read(content, sorted[k], reading.engine, whole)]
    IN  Paired(sorted, IF terminated THEN Append(payloads, None) ELSE payloads)

\* The identity under which a text is cached (pdfOcrCacheIdentity).
Identity(p) == <<reading.checksum, p, reading.engine>>

\* parsePdfOcrBatchOutput: exactly the requested pages in their order.
Fits(answer, batch) == [k \in DOMAIN answer |-> answer[k].page] = NormalizedPages(batch)

\* joinPdfPages: pages without text have a region too.
JoinPages(texts) == [p \in DOMAIN texts |-> [place |-> p, text |-> texts[p]]]

-----------------------------------------------------------------------------
(* Archives are read at once. *)

ReadArchive ==
    /\ reading.phase = "idle"
    /\ \/ \E deck \in Decks :
             reading' = [NoReading EXCEPT !.phase = "done", !.texts = deck, !.regions = DeckRegions(deck)]
       \/ \E book \in Books :
             reading' = [NoReading EXCEPT !.phase = "done", !.texts = book, !.regions = BookRegions(book)]
       \/ \E book \in Workbooks :
             reading' = [NoReading EXCEPT !.phase = "done", !.texts = [sheets |-> book],
                                          !.regions = SheetRegions(book)]
    /\ UNCHANGED <<content, ocrCache, child>>

-----------------------------------------------------------------------------
(* PDFs and images. *)

\* The inventory has taken the checksum of the present content; the parse has
\* begun, with a command for one page or for batches.
BeginReading ==
    /\ reading.phase = "idle"
    /\ \E engine \in Engines \cup {None}, batched \in BOOLEAN :
          reading' = [NoReading EXCEPT !.phase = "pages", !.kind = "pdf", !.checksum = content,
                                       !.engine = engine, !.batched = batched /\ engine # None]
    /\ UNCHANGED <<content, ocrCache, child>>

\* parsePdf up to the OCR
ReadPages ==
    /\ reading.phase = "pages"
    /\ \E pdf \in Pdfs :
          IF pdf.pages > MaxPages THEN To("failed")
          ELSE LET texts == [p \in 1 .. pdf.pages |->
                               IF p \in pdf.blank THEN None ELSE Native(content, p)]
               IN  reading' = [reading EXCEPT !.texts = texts, !.blank = pdf.blank,
                     !.phase = IF pdf.blank = {} \/ reading.engine = None THEN "join" ELSE "lookup"]
    /\ UNCHANGED <<content, ocrCache, child>>

\* The cached texts; the pages that have none are missing.
LookUp ==
    /\ reading.phase = "lookup"
    /\ LET hits == {p \in reading.blank : Identity(p) \in DOMAIN ocrCache}
           texts == [p \in DOMAIN reading.texts |->
                       IF p \in hits THEN ocrCache[Identity(p)] ELSE reading.texts[p]]
       IN  \/ reading' = [reading EXCEPT !.texts = texts, !.missing = reading.blank \ hits,
                                         !.phase = "next"]
           \/ "ioError" \in ExtractionEvents /\ To("failed")
    /\ UNCHANGED <<content, ocrCache, child>>

\* parseImage and parseLegacyWord: one command, whose text is not cached.
ReadWithCommand ==
    /\ reading.phase = "idle"
    /\ \E engine \in Engines :
          reading' = [NoReading EXCEPT !.phase = "next", !.kind = "command", !.checksum = content,
                            !.engine = engine, !.blank = {1}, !.texts = <<None>>, !.missing = {1}]
    /\ UNCHANGED <<content, ocrCache, child>>

\* runExternalTextCommand: an abort rejects before, and a command that does not
\* start rejects.
Spawn ==
    /\ reading.phase = "next" /\ reading.missing # {}
    /\ \/ /\ ~reading.aborted
          /\ child' = [NoChild EXCEPT !.state = "running", !.timer = TRUE]
          /\ To("running")
       \/ (reading.aborted \/ "ioError" \in ExtractionEvents) /\ Failing
    /\ UNCHANGED <<content, ocrCache>>

\* terminateWithEscalation: SIGTERM, and later SIGKILL.
Terminated(c) == IF c.state = "running" THEN [c EXCEPT !.state = "terminated"] ELSE c

Timer ==
    /\ child.timer
    /\ child' = Terminated([child EXCEPT !.timer = FALSE, !.timedOut = TRUE])
    /\ UNCHANGED <<content, ocrCache, reading>>

Abort ==
    /\ "abort" \in ExtractionEvents
    /\ reading.phase \notin {"idle", "done", "failed"} /\ ~reading.aborted
    /\ reading' = [reading EXCEPT !.aborted = TRUE]
    /\ child' = IF child.state = "none" THEN child ELSE Terminated([child EXCEPT !.aborted = TRUE])
    /\ UNCHANGED <<content, ocrCache>>

\* captureOutput: the output passes MAX_EXTERNAL_TEXT_STDIO_BYTES.
TooLarge ==
    /\ child.state \in {"running", "terminated"} /\ ~child.large
    /\ child' = Terminated([child EXCEPT !.large = TRUE, !.timer = FALSE])
    /\ UNCHANGED <<content, ocrCache, reading>>

\* Variant for the checks: no timer of EXTERNAL_COMMAND_KILL_GRACE_MS.
Escalate_Never == FALSE /\ UNCHANGED extractionVars

\* The timer of EXTERNAL_COMMAND_KILL_GRACE_MS.
Escalate ==
    /\ child.state = "terminated"
    /\ child' = [child EXCEPT !.state = "killed"]
    /\ UNCHANGED <<content, ocrCache, reading>>

\* The command ends: by itself, on SIGTERM, with a code of its own even then,
\* or because it was killed.  Its batches are those of extractPdfPages, or
\* those of a command that orders its answer otherwise or leaves pages out.
Ends ==
    /\ child.state \in {"running", "terminated", "killed"}
    /\ \/ child' = [child EXCEPT !.state = "ended", !.code = 1]
       \/ /\ child.state # "killed"
          /\ \E whole \in {TRUE} \cup {child.state = "running" /\ ~child.large}, terminated \in BOOLEAN :
                LET answer == Extracted(Batch, whole, terminated)
                IN  \E given \in {answer} \cup IF reading.batched THEN {Reverse(answer), Front(answer)} ELSE {} :
                       child' = [child EXCEPT !.state = "ended", !.answer = given]
    /\ UNCHANGED <<content, ocrCache, reading>>

\* Variant for the checks: a command that ends with code 0 is believed, whatever ended it.
Close_ByCode ==
    /\ child.state = "ended"
    /\ IF child.code # 0 THEN Failing
       ELSE /\ IF reading.batched /\ ~Fits(child.answer, Batch) THEN To("failed")
               ELSE reading' = [reading EXCEPT !.phase = "store", !.got = child.answer]
            /\ child' = NoChild
    /\ UNCHANGED <<content, ocrCache>>

\* The verdict on an ended command, in the order of the code.
Close ==
    /\ child.state = "ended"
    /\ IF child.aborted \/ child.timedOut \/ child.large \/ child.code # 0 THEN Failing
       ELSE /\ IF reading.batched /\ ~Fits(child.answer, Batch) THEN To("failed")
               ELSE reading' = [reading EXCEPT !.phase = "store",
                                               !.got = child.answer]
            /\ child' = NoChild
    /\ UNCHANGED <<content, ocrCache>>

\* The texts of a batch, one page after the other, with writePdfOcrCache, which
\* renames a file that is complete.
Store ==
    /\ reading.phase = "store" /\ reading.got # <<>>
    /\ LET answer == Head(reading.got) IN
       \/ /\ reading' = [reading EXCEPT !.texts[answer.page] = answer.text, !.got = Tail(@)]
          /\ ocrCache' = IF reading.kind = "command" THEN ocrCache
                         ELSE [id \in DOMAIN ocrCache \cup {Identity(answer.page)} |->
                                 IF id = Identity(answer.page) THEN answer.text ELSE ocrCache[id]]
       \/ "ioError" \in ExtractionEvents /\ To("failed") /\ UNCHANGED ocrCache
    /\ UNCHANGED <<content, child>>

Stored ==
    /\ reading.phase = "store" /\ reading.got = <<>>
    /\ reading' = [reading EXCEPT !.phase = "next", !.missing = @ \ Batch]
    /\ UNCHANGED <<content, ocrCache, child>>

\* All texts are there; an abort rejects the parse even now, and so do the texts of a
\* PDF that together are more than MAX_PDF_TEXT_CHARACTERS.
Join ==
    /\ \/ reading.phase = "join"
       \/ reading.phase = "next" /\ reading.missing = {}
    /\ \/ /\ ~reading.aborted
          /\ reading' = [reading EXCEPT !.phase = "done",
                            !.regions = IF reading.kind = "pdf" THEN JoinPages(reading.texts) ELSE <<>>]
       \/ /\ reading.aborted \/ (reading.kind = "pdf" /\ \E p \in DOMAIN reading.texts : reading.texts[p] # None)
          /\ To("failed")
    /\ UNCHANGED <<content, ocrCache, child>>

-----------------------------------------------------------------------------
(* The program goes on with another file, the user edits this one, the      *)
(* process dies.                                                            *)

NextFile ==
    /\ reading.phase \in {"done", "failed"}
    /\ reading' = NoReading
    /\ UNCHANGED <<content, ocrCache, child>>

Rewrite ==
    /\ reading.phase = "idle" \/ "rewrite" \in ExtractionEvents
    /\ content < MaxContents
    /\ content' = content + 1
    /\ UNCHANGED <<ocrCache, reading, child>>

Die ==
    /\ "crash" \in ExtractionEvents /\ reading.phase # "idle"
    /\ reading' = NoReading /\ child' = NoChild
    /\ UNCHANGED <<content, ocrCache>>

ExtractionNext ==
    \/ ReadArchive \/ BeginReading \/ ReadPages \/ LookUp \/ ReadWithCommand
    \/ Spawn \/ Timer \/ Abort \/ TooLarge \/ Escalate \/ Ends \/ Close \/ Store \/ Stored
    \/ Join \/ NextFile \/ Rewrite \/ Die

\* Timers fire and a killed process ends; a command may run as long as it likes.
ExtractionFairness ==
    /\ WF_extractionVars(Timer) /\ WF_extractionVars(Escalate) /\ WF_extractionVars(Close)
    /\ WF_extractionVars(child.state = "killed" /\ Ends)

ExtractionSpec == ExtractionInit /\ [][ExtractionNext]_extractionVars /\ ExtractionFairness

-----------------------------------------------------------------------------
(* Properties. *)

\* Every cached text is the whole text of its page, of the content with its
\* checksum and by its engine (writePdfOcrCache, parsing.ts:788).
CacheTrue ==
    \A id \in DOMAIN ocrCache : ocrCache[id] = Read(id[1], id[2], id[3], TRUE)

\* A PDF that was read has its own text on the pages that have one, and on the
\* blank ones, when OCR is configured, what its engine reads on that page.
PagesRead ==
    reading.phase = "done" /\ reading.kind # "archive" =>
        \A p \in DOMAIN reading.texts :
            reading.texts[p] = IF p \notin reading.blank THEN Native(reading.checksum, p)
                               ELSE IF reading.engine = None THEN None
                               ELSE Read(reading.checksum, p, reading.engine, TRUE)

\* OCR attributes whole texts to their pages and contents, through failures,
\* aborts and later contents (parsing.ts:737-817).
ExtractionSound == CacheTrue /\ PagesRead

\* The regions of an archive lie one behind the other, with a blank line between
\* them; a deck has every slide with text once (parsing.ts:413-446).
ArchiveKept ==
    reading.phase = "done" /\ reading.kind = "archive" =>
        LET regions == reading.regions IN
        /\ \A k \in 1 .. Len(regions) - 1 : regions[k + 1].from = regions[k].to + 2
        /\ reading.texts \in Decks =>
              LET deck == reading.texts
                  slide(k) == regions[k].place.slide
              IN  /\ {slide(k) : k \in DOMAIN regions} = {n \in DOMAIN deck.slides : deck.slides[n] > 0}
                  /\ \A k, l \in DOMAIN regions : k # l => slide(k) # slide(l)

\* A command ends in bounded time whatever it does: it is killed if it ignores
\* the timer (parsing.ts:1006-1016).
CommandsEnd == reading.phase = "running" ~> reading.phase # "running"

\* docs/api-reference.md: "full results attach the header as a separate `context` passage
\* with its own cell citation": the region that a row refers to as its header is above the row,
\* in the same sheet, and all texts.
HeadersBelong ==
    reading.phase = "done" /\ reading.texts \in {[sheets |-> b] : b \in Workbooks} =>
        LET regions == reading.regions IN
        \A k \in DOMAIN regions :
            LET h == regions[k].header
                at == regions[h].place
            IN  h # None => /\ h \in 1 .. k - 1
                            /\ at.sheet = regions[k].place.sheet
                            /\ reading.texts.sheets[at.sheet][at.row] = "texts"

=============================================================================
