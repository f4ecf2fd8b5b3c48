--------------------------------- MODULE Service ---------------------------------
(***************************************************************************)
(* The parts of the server that surround a session, side by side: members  *)
(* and logins, the input to the desktop, its file dialog, the connections  *)
(* with settings and shutdown, and the plugins.  What joins them is in     *)
(* WsSession and RoomControl; here a behaviour looks at one of them and    *)
(* leaves the others as they start.                                        *)
(***************************************************************************)
EXTENDS Accounts, DesktopInput, FileDialog, Connections, Plugins

CONSTANT Parts          \* the parts that are looked at

ASSUME ServiceAssumption ==
    Parts \subseteq {"accounts", "desktop", "dialog", "connections",
                "plugins"}

VARIABLE part           \* the one of this behaviour

serviceVars == <<part, accountsVars, desktopVars, dialogVars, serverVars,
                 pluginsVars>>

\* Each variable of the five parts stays in its type.
TypeOK == /\ part \in Parts
          /\ AccountsTypeOK /\ DesktopTypeOK /\ DialogTypeOK
          /\ ConnectionsTypeOK /\ PluginsTypeOK

\* A part that is not looked at starts in any one of its initial states.
Unseen ==
    /\ part # "accounts" => setting = CHOOSE s \in Settings : TRUE
    /\ part # "desktop" => /\ desk = CHOOSE s \in DesktopScenes : TRUE
                           /\ ~implicit
    /\ part # "connections" => ~inactive
    /\ part # "plugins" =>
          dependsOn = [n \in Names |-> CHOOSE d \in Declarations : TRUE]

Init == /\ part \in Parts
        /\ AccountsInit /\ DesktopInit /\ DialogInit /\ ConnectionsInit /\ PluginsInit
        /\ Unseen

Next ==
    /\ part' = part
    /\ \/ /\ part = "accounts" /\ AccountsNext
          /\ UNCHANGED <<desktopVars, dialogVars, serverVars, pluginsVars>>
       \/ /\ part = "desktop" /\ DesktopNext
          /\ UNCHANGED <<accountsVars, dialogVars, serverVars, pluginsVars>>
       \/ /\ part = "dialog" /\ DialogNext
          /\ UNCHANGED <<accountsVars, desktopVars, serverVars, pluginsVars>>
       \/ /\ part = "connections" /\ ConnectionsNext
          /\ UNCHANGED <<accountsVars, desktopVars, dialogVars, pluginsVars>>
       \/ /\ part = "plugins" /\ PluginsNext
          /\ UNCHANGED <<accountsVars, desktopVars, dialogVars, serverVars>>

Spec == Init /\ [][Next]_serviceVars
=============================================================================
