------------------------------ MODULE MCReply ------------------------------
(***************************************************************************)
(* The adapter's and the dispatch engine's constants for TLC.              *)
(***************************************************************************)
EXTENDS Reply

\* Words: one and two characters, a media URL, a page whose address has that URL in
\* it, and a word like "(https://x/v.mp4)." with a media URL inside.
CONSTANTS a, bb, pic, page, clip

\* A negative setting is what NewAIAdapter's first test is for.
MCRetrySettings == {-1, 2}

MCWords == {a, bb, pic, page, clip}

MCRunes == [w \in MCWords |-> IF w = a THEN 1 ELSE IF w = bb THEN 2 ELSE 3]

MCMediaURLs == {pic, clip}

\* A URL is named for the word it is found in.
MCURLOf == [w \in MCWords |-> IF w \in MCMediaURLs THEN w ELSE Nothing]

MCWithin == {<<pic, pic>>, <<pic, page>>, <<clip, clip>>}

\* Of page and of clip a word of one character is left.
MCTorn == [pair \in MCWithin |-> IF pair[2] = pic THEN Nothing ELSE a]

\* Up to three words, and up to five where no URL is among them.
MCTexts == BoundedSeq({a, bb, pic, page}, 3) \cup BoundedSeq({a, bb}, 5)
               \cup BoundedSeq({bb, pic, clip}, 2)

MCNotices == {<<bb, a, bb>>}

=============================================================================
