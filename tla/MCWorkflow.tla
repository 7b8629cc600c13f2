----------------------------- MODULE MCWorkflow -----------------------------
(***************************************************************************)
(* A small instance of Workflow.  m1 and m2 are versions of one message,   *)
(* m3 has no id, m4 is what the others refer to.  A group has three topics *)
(* on two pages, two of them without messages that can be fetched, and     *)
(* another one fills its last page, which the crawler never finds the end  *)
(* of.  The articles of the news server have the same text.                *)
(***************************************************************************)
EXTENDS Workflow

CONSTANTS m1, m2, m3, m4, a, b

MCGroups == {<<<<m1, m2>>, <<>>, <<>>>>, <<<<m1>>, <<>>>>}
MCSize == m1 :> 1 @@ m2 :> 1 @@ m3 :> 2 @@ m4 :> 1
MCIdOf == m1 :> a @@ m2 :> a @@ m3 :> NoId @@ m4 :> b
MCOldArchives == <<<<m4, m2>>, <<m3, m1>>>>
MCPosted == 1 :> m1 @@ 2 :> m1 @@ 3 :> m1
MCReferences == m1 :> <<b>> @@ m2 :> <<>> @@ m3 :> <<b, a>> @@ m4 :> <<>>
=============================================================================
