---------------------------- MODULE MCHttpRoutes ----------------------------
(* A root container, an application's container in it with a component of   *)
(* its own, and two components of the root container with the same name.     *)
EXTENDS HttpRoutes

CONSTANTS root, app, x, x2, y

MCComps == {root, app, x, x2, y}
MCName == [c \in MCComps |-> CASE c = root -> "root" [] c = app -> "App"
                               [] c = y -> "Y" [] OTHER -> "x"]
MCLower == [n \in {"root", "App", "Y", "x"} |->
                CASE n = "App" -> "app" [] n = "Y" -> "y" [] OTHER -> n]
MCAdds == {<<app, app>>, <<app, root>>, <<x, root>>, <<x2, root>>, <<y, app>>}
=============================================================================
