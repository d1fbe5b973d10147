------------------------------ MODULE PackCore ------------------------------
(* What a pack goes through: the pages of a PDF that are images are read (Scans),
   a source becomes texts under their headings (Documents), a paragraph sentences
   (Sentences), a block of them chunks (Chunking), the chunks a file that mounts
   (PackFile), and a question is answered from those mounted (Retrieval); and the
   signed catalog, checked with the same code (CatalogDist). What answers then is
   the in-process engine: its stack is loaded (AdapterStack), its turn streamed
   (TokenStream), what it asks of the calculator calculated (Calc), and what was
   said is exported with its citations (Transcripts). Each stage is a function of
   what the one before hands on, so a behaviour here is one at work. *)
EXTENDS Scans, Documents, Sentences, Chunking, PackFile, Retrieval, CatalogDist,
        AdapterStack, TokenStream, Calc, Transcripts

NoScan == pdf = <<>> /\ pages = <<>> /\ ready = FALSE /\ cancelled = FALSE
          /\ ocr = "none" /\ nth = 1 /\ tesseract = "none" /\ scratch = {}
          /\ polls = 0 /\ tried = {}
NoSource == format = "none" /\ source = "none" /\ stack = <<>> /\ path = <<>>
            /\ blocks = <<>> /\ depth = 0 /\ target = "none" /\ list = <<>>
            /\ sections = <<>> /\ heads = <<>> /\ told = <<>>
NoText == text = <<>> /\ pos = 0 /\ from = 1 /\ said = {}
NoBlock == block = [kind |-> "none", n |-> 0] /\ pc = "none" /\ i = 1 /\ to = 1
           /\ back = 1 /\ w = 1 /\ cur = 0 /\ c = 1 /\ d = 1 /\ out = {}
           /\ last = NoChunk
NoPack == installed = "none" /\ updates = 0 /\ dotPart = NoFile /\ kpack = NoFile
          /\ building = "none" /\ source_at = 1 /\ chunk_at = 1 /\ pending = <<>>
          /\ mounted = NoMount
NoQuery == packs = <<>> /\ phase = "none" /\ hits = <<>> /\ passing = {}
           /\ unified = <<>> /\ at = 1 /\ selected = <<>> /\ cited = <<>>
NoCatalog == published = 0 /\ highest = 0 /\ answered = 0 /\ fetch_lock = NoFetch
             /\ fetches = [f \in Fetches |-> Idle]
NoStack == disk = [a \in Artifact |-> "none"] /\ verified = {} /\ native = FALSE
           /\ backend = {} /\ changes = 0
           /\ load = [l \in Loader \cup Embedding |-> [Resting EXCEPT !.pc = "none"]]
NoTurn == gen = "none" /\ strips = FALSE /\ strip = "pass" /\ buffer = <<>>
          /\ generated = 0 /\ spoken = <<>> /\ shown = <<>>
NoSum == asked = <<>> /\ meant = Unasked
NoBook == instant = 0 /\ zone = 0 /\ notes = <<>> /\ reading = <<>>
          /\ reached = 1 /\ export = Unread /\ setBack = FALSE

CoreInit ==
  \E begun \in {"scan", "source", "text", "block", "pack", "query", "catalog",
               "stack", "turn", "sum", "book"} :
    /\ IF begun = "scan" THEN OcrInit ELSE NoScan
    /\ IF begun = "source" THEN DInit ELSE NoSource
    /\ IF begun = "text" THEN SInit ELSE NoText
    /\ IF begun = "block" THEN Init ELSE NoBlock
    /\ IF begun = "pack" THEN FInit ELSE NoPack
    /\ IF begun = "query" THEN QInit ELSE NoQuery
    /\ IF begun = "catalog" THEN DistInit ELSE NoCatalog
    /\ IF begun = "stack" THEN StackInit ELSE NoStack
    /\ IF begun = "turn" THEN GInit ELSE NoTurn
    /\ IF begun = "sum" THEN CalcInit ELSE NoSum
    /\ IF begun = "book" THEN BookInit ELSE NoBook
packvars == <<ocrvars, dvars, svars, vars, fvars, qvars, distvars>>
turnvars == <<stackvars, genvars, calcvars, bookvars>>
corevars == <<packvars, turnvars>>
Looks == OcrNext /\ ocr # "none" /\ UNCHANGED <<dvars, svars, vars, fvars, qvars, distvars, turnvars>>
Scanning == OcrSteps /\ UNCHANGED <<dvars, svars, vars, fvars, qvars, distvars, turnvars>>
Reads == DNext /\ UNCHANGED <<ocrvars, svars, vars, fvars, qvars, distvars, turnvars>>
Tells == SNext /\ pos > 0 /\ UNCHANGED <<ocrvars, dvars, vars, fvars, qvars, distvars, turnvars>>
Cuts == Next /\ UNCHANGED <<ocrvars, dvars, svars, fvars, qvars, distvars, turnvars>>
Packs == FNext /\ building # "none" /\ UNCHANGED <<ocrvars, dvars, svars, vars, qvars, distvars, turnvars>>
Answers == QNext /\ UNCHANGED <<ocrvars, dvars, svars, vars, fvars, distvars, turnvars>>
Fetching == DistNext /\ published > 0 /\ UNCHANGED <<ocrvars, dvars, svars, vars, fvars, qvars, turnvars>>
Loads == (\E l \in Loader : load[l].pc # "none") /\ StackNext /\ UNCHANGED <<packvars, genvars, calcvars, bookvars>>
Streams == GNext /\ UNCHANGED <<packvars, stackvars, calcvars, bookvars>>
Calculates == Calculate /\ asked # <<>> /\ UNCHANGED <<packvars, stackvars, genvars, bookvars>>
Exports == BookNext /\ instant > 0 /\ UNCHANGED <<packvars, stackvars, genvars, calcvars>>
CoreNext == \/ Looks \/ Reads \/ Tells \/ Cuts \/ Packs \/ Answers \/ Fetching
            \/ Loads \/ Streams \/ Calculates \/ Exports
CoreSpec == /\ CoreInit /\ [][CoreNext]_corevars
            /\ WF_corevars(Scanning \/ Tells \/ Cuts \/ Answers)

\* Whatever is begun ends: the loop over a scan's pages, and those of a paragraph,
\* a cut and an answer, come to an end.
Finishes == <>(\/ source # "none" \/ building # "none" \/ published > 0
               \/ (\E l \in Loader : load[l].pc # "none") \/ gen # "none" \/ asked # <<>> \/ instant > 0
               \/ Settled \/ pos > Len(text) + 1
               \/ pc = "done" \/ phase \in {"grounded", "noEvidence"})
=============================================================================
