----------------------------- MODULE MCXmlDriver -----------------------------
(* The values of the constants, in the .cfg files, choose the family of the *)
(* document.  MaxElements is one more than MaxDepth, so that a document can *)
(* reach the depth bound and ask for one level more.                        *)
EXTENDS XmlDriver
=============================================================================
