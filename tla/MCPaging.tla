------------------------------ MODULE MCPaging ------------------------------
(***************************************************************************)
(* Two user slots over a pool of frames that holds one process with all    *)
(* its pages, or two processes without, so that every allocation can fail. *)
(***************************************************************************)
EXTENDS Paging

\* Programs swap out only pages of their own data.
MCDataPages == DataPages

\* Programs swap out any page of theirs, model pages included.
MCAllPages == Pages
=============================================================================
