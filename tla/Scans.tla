------------------------------- MODULE Scans -------------------------------
(* How the pages of a PDF that hold no text are read (kpack.rs, ocr.rs): one
   page at a time is rendered, written to a scratch file and given to a
   tesseract process, which is polled until it exits or its time is up. A page
   that cannot be read stays blank; the build's cancel flag is looked at
   between pages and once more after the last. *)
EXTENDS Integers, Sequences

CONSTANTS
  PDFs,        \* the pages of a PDF: sequences of "text" and "image"
  MaxScanned,  \* ocr_page_budget: more image pages than that are refused
  Patience     \* PER_PAGE_TIMEOUT, in polls
ASSUME ScansAssumption ==
  /\ PDFs \subseteq Seq({"text", "image"})
  /\ {MaxScanned, Patience} \subseteq Nat

VARIABLES
  pdf,        \* the pages as they were extracted
  pages,      \* the pages now: "text", or "image" while they are blank
  ready,      \* ocr_ready: tesseract and its language data are installed
  cancelled,  \* the build's cancel flag
  ocr,        \* where the build is
  nth,        \* the image page it is at
  tesseract,  \* the process: "none", "runs", "read", "failed"
  scratch,    \* the temporary files of the page
  polls,      \* polls of the process so far
  tried       \* history: the pages that were given to tesseract, or could not be
ocrvars == <<pdf, pages, ready, cancelled, ocr, nth, tesseract, scratch, polls, tried>>

OcrInit ==
  /\ pdf \in PDFs /\ pages = pdf /\ ready \in BOOLEAN /\ cancelled = FALSE
  /\ ocr = "extracted" /\ nth = 1 /\ tried = {}
  /\ tesseract = "none" /\ scratch = {} /\ polls = 0

ImagePages == {k \in DOMAIN pdf : pdf[k] = "image"}
AllBlank == \A k \in DOMAIN pages : pages[k] = "image"
Process == <<tesseract, scratch, polls>>
Settled == ocr \in {"built", "refused", "cancelled", "ended"}

\* The image pages are read if they can be and are not too many; without
\* tesseract only a PDF that is all images is refused.
Partition ==
  /\ ocr = "extracted"
  /\ ocr' = IF ImagePages = {} THEN "merged"
            ELSE IF ~ready THEN IF ImagePages = DOMAIN pdf THEN "refused" ELSE "merged"
            ELSE IF Len(SelectSeq(pdf, LAMBDA p : p = "image")) > MaxScanned
                 THEN "refused" ELSE "page"
  /\ UNCHANGED <<pdf, pages, ready, cancelled, nth, Process, tried>>

\* build_personal_pack's Cancel, at any time.
CancelScan ==
  /\ ~Settled /\ cancelled' = TRUE
  /\ UNCHANGED <<pdf, pages, ready, ocr, nth, Process, tried>>

\* ocr_fill_pages: the next image page, unless the build is cancelled.
NextPage ==
  /\ ocr = "page"
  /\ IF cancelled \/ \A k \in ImagePages : k < nth
     THEN ocr' = "merged" /\ UNCHANGED nth
     ELSE /\ ocr' = "render"
          /\ \E k \in ImagePages : /\ nth' = k /\ k >= nth
                                   /\ \A j \in ImagePages : j >= nth => j >= k
  /\ UNCHANGED <<pdf, pages, ready, cancelled, Process, tried>>

\* The page is done with: its guards remove what it left.
PageDone(text) ==
  /\ ocr' = "page" /\ nth' = nth + 1 /\ tried' = tried \cup {nth}
  /\ pages' = IF text THEN [pages EXCEPT ![nth] = "text"] ELSE pages
  /\ scratch' = {} /\ polls' = 0

\* render_page, the scratch files and the spawn: any of them may fail.
Spawn ==
  /\ ocr = "render"
  /\ \/ ocr' = "poll" /\ tesseract' = "runs" /\ scratch' = {"png", "err"}
        /\ UNCHANGED <<pages, nth, tried, polls>>
     \/ PageDone(FALSE) /\ UNCHANGED tesseract
  /\ UNCHANGED <<pdf, ready, cancelled>>

\* tesseract's own steps.
Recognizes ==
  /\ tesseract = "runs"
  /\ \/ tesseract' = "read" /\ scratch' = scratch \cup {"txt"}
     \/ tesseract' = "failed" /\ scratch' \in {scratch, scratch \cup {"txt"}}
  /\ UNCHANGED <<pdf, pages, ready, cancelled, ocr, nth, polls, tried>>

Polled == ocr = "poll" /\ UNCHANGED <<pdf, ready, cancelled>>
\* It is polled again; once its time is up it is killed and reaped.
\* Mutant: a process whose time is up is left running.
OutOfTime_Leaves ==
  /\ Polled /\ tesseract = "runs" /\ polls = Patience
  /\ UNCHANGED tesseract /\ PageDone(FALSE)
OutOfTime ==
  /\ Polled /\ tesseract = "runs" /\ polls = Patience
  /\ tesseract' = "none" /\ PageDone(FALSE)
PollAgain ==
  /\ Polled /\ tesseract = "runs" /\ polls < Patience /\ polls' = polls + 1
  /\ UNCHANGED <<pages, ocr, nth, tesseract, scratch, tried>>
\* It exited: what it wrote is the page's text, if it is any and can be read.
Exited ==
  /\ Polled /\ tesseract \in {"read", "failed"} /\ tesseract' = "none"
  /\ \E text \in BOOLEAN : (text => tesseract = "read") /\ PageDone(text)
\* try_wait fails: the page is given up, and the process goes on by itself.
Unwaited ==
  /\ Polled /\ tesseract = "runs" /\ tesseract' = "none" /\ PageDone(FALSE)

\* The pages become a document, unless the build was cancelled or has no text.
Merge ==
  /\ ocr = "merged"
  /\ ocr' = IF cancelled THEN "cancelled" ELSE IF AllBlank THEN "refused" ELSE "built"
  /\ UNCHANGED <<pdf, pages, ready, cancelled, nth, Process, tried>>

\* The app ends; tesseract goes on by itself.
OcrEnd ==
  /\ ~Settled /\ ocr' = "ended"
  /\ UNCHANGED <<pdf, pages, ready, cancelled, nth, Process, tried>>

OcrSteps == Partition \/ NextPage \/ Spawn \/ OutOfTime \/ PollAgain \/ Exited \/ Unwaited \/ Merge
OcrNext == OcrSteps \/ CancelScan \/ Recognizes \/ OcrEnd
OcrSpec == OcrInit /\ [][OcrNext]_ocrvars

-----------------------------------------------------------------------------
\* Once a PDF is done with, no process (but one that could not be waited for)
\* and no file of it is left; and the pages that a pack is built from are whole:
\* the text pages as they were, and each image page tried, never those of a scan
\* that was cancelled half way.
ScanIsWhole ==
  /\ Settled /\ ocr # "ended" => tesseract = "none" /\ scratch = {}
  /\ ocr = "built" => /\ \A k \in DOMAIN pdf \ ImagePages : pages[k] = "text"
                      /\ ready => tried = ImagePages
=============================================================================
