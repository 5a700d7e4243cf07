----------------------------- MODULE MCSending ------------------------------
(***************************************************************************)
(* A small instance of Sending for TLC.                                    *)
(***************************************************************************)
EXTENDS Sending

File(type, size) == [access |-> "granted", size |-> size, type |-> type, declared |-> type]

Post(media, file) == [author |-> "me", media |-> media, asset |-> file]

Picture == File("image/png", 8 * 1024 * 1024)
Slides  == File("application/pdf", 100 * 1024 * 1024)

\* Every shape of post, and assets refused for their type, size, name and reader.
SomeDrafts ==
    {Post("none", NoAsset), Post("article", NoAsset), Post("article", Picture),
     Post("image", Picture), Post("document", Slides),
     Post("document", Picture), Post("image", File("image/png", 8 * 1024 * 1024 + 1)),
     Post("image", [Picture EXCEPT !.declared = "image/gif"]),
     Post("image", [Picture EXCEPT !.access = "broken"]),
     [Post("none", NoAsset) EXCEPT !.author = "someone"]}

OneRegister == [e \in Endpoints |-> IF e = "create" THEN 2 ELSE 1]

\* A delay, a delay in the past and a date.
SomeHeaders ==
    {[form |-> "delta", n |-> 1], [form |-> "delta", n |-> 0 - 1],
     [form |-> "date", n |-> 2]}
=============================================================================
