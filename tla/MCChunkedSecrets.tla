-------------------------- MODULE MCChunkedSecrets --------------------------
(* Releases of one to five chunks.  Those of three and four, which share   *)
(* their first two chunks, can be written, those of up to three be read.   *)
EXTENDS ChunkedSecrets
MCReleases == 1..4
MCEncoding == << <<1>>, <<1, 2, 4, 5, 6>>, <<1, 2, 4, 5, 6, 7, 8>>,
                 <<1, 2, 4, 5, 6, 7, 8, 9, 10>> >>
MCLabel == <<"deployed", "pending", "deployed", "deployed">>
=============================================================================
