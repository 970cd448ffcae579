------------------------ MODULE MCBigfileDownloader ------------------------
(***************************************************************************)
(* BigfileDownloader on a resource of three chunks, whose next version     *)
(* fills one chunk and half of the second: a chunk may then be beyond the  *)
(* end, or come short.                                                     *)
(***************************************************************************)
EXTENDS BigfileDownloader

TwoVersions == <<6, 3>>
OneVersion == <<5>>
=============================================================================
