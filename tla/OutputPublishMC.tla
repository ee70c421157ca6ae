--------------------------- MODULE OutputPublishMC ---------------------------
(***************************************************************************)
(* Report outputs written by a few commands.                               *)
(***************************************************************************)
EXTENDS OutputPublish

CONSTANTS json, markdown

JsonThenMarkdown == <<json, markdown>>
=============================================================================
