-------------------------- MODULE MCBrowserCopies --------------------------
(***************************************************************************)
(* A small instance of BrowserCopies: a user's two Firefox profiles, and a *)
(* Chrome profile with bookmarks in two homes, one of them left behind,    *)
(* which share their names in the package.                                 *)
(***************************************************************************)
EXTENDS BrowserCopies

Ann(h, b, n) == [home |-> h, browser |-> b, user |-> "ann", name |-> n]
MCProfile == <<Ann("/home/ann", "chrome", "Default"), Ann("/srv/ann", "chrome", "Default"),
               Ann("/home/ann", "firefox", "x"), Ann("/home/ann", "firefox", "y")>>
MCBusy    == {<<4, "places.sqlite">>}
MCKnown   == ({1, 2} \X {"Bookmarks"}) \union {<<3, "cookies.sqlite">>, <<3, "places.sqlite">>,
                                               <<4, "places.sqlite">>}
=============================================================================
