----------------------------- MODULE GeckoNatives -----------------------------
(***************************************************************************)
(* The natives of the Gecko extension that work on a document: its nodes   *)
(* (domnode.cpp), the values of its inputs (inputvalue.cpp) and the        *)
(* document of a view (jsexports.cpp), each as the set of its ways         *)
(* (Natives).  The natives that load pages and handle events are actions   *)
(* of GeckoEvents.                                                         *)
(***************************************************************************)
EXTENDS Natives

(* An object is made for a node that a smart pointer holds: the pointer    *)
(* gives its reference back when the native returns, and the object's      *)
(* finalizer gives back one more (finalizeElement).                        *)
Wrap == Take("node") ** Hand("node") ** Drop("node")

(* An object is made for a node held by a plain pointer, whose reference   *)
(* becomes the object's.                                                   *)
Own == Take("node") ** Hand("node")

(* One object per node of a list.                                          *)
buildNodeList == Loop(Wrap)

(* A native that changes a node waits for domStateLock, which the UI thread *)
(* holds while it dispatches events (uiwndthread.cpp 363-366): the two that *)
(* change attributes when they have ended their request, the others in it. *)
EnterDomState == Wait

setAttribute == WithRequest(Skip) ** (Skip \union EnterDomState)
removeAttribute == WithRequest(Skip) ** (Skip \union EnterDomState)
hasAttribute == WithRequest(Skip)
stringPropGetter == WithRequest(Skip)
stringPropSetter == WithRequest(EnterDomState)

getElementsByTagName ==
  Skip \union WithRequest(Skip \union (Take("node") ** buildNodeList ** Drop("node")))

nodePropGetter == WithRequest(Skip \union Wrap)
childGetter == WithRequest(Skip \union (Take("node") ** buildNodeList ** Drop("node")))

insertBefore == WithRequest(Skip \union (EnterDomState ** (Skip \union Wrap)))
replaceChild == WithRequest(Skip \union (EnterDomState ** (Skip \union Wrap)))
removeChild == WithRequest(Skip \union (EnterDomState ** (Skip \union Wrap)))
appendChild == WithRequest(Skip \union (EnterDomState ** (Skip \union Wrap)))

(* The three natives of a document end the request on every way out but    *)
(* the one that returns a node (505-508, 540-543, 571-574).                *)
createElement == Skip \union (Begin ** (End \union Wrap))
createTextNode == Skip \union (Begin ** (End \union Wrap))
getElementByID == Begin ** (End \union Wrap)

docNodeGetter == Wrap
-----------------------------------------------------------------------------
(* The document of a view.  Its window answers from the UI thread, and is  *)
(* repainted and shown by it (382, 393, 395).                              *)

g2_get_element_by_id == WithRequest(Skip \union Own)
g2_import_dom_string == WithRequest(Skip \union (Yield ** Wait ** (Skip \union Own)))
g2_get_dom == WithRequest(Wait ** Wrap)
g2_repaint == WithRequest(Skip) ** EnterDomState ** Wait
g2_hide == WithRequest(Skip) ** Wait
enumdisplaymonitors == WithRequest(Skip)
-----------------------------------------------------------------------------
(* The value of an input (inputvalue.cpp): the inputs, then the text       *)
(* areas, then the selections, each list searched for the name.            *)

Released == Take("node") ** Take("node") ** Drop("node") ** Drop("node")

(* An input that is found is released, a checkbox is not (82-87).          *)
InInputs == Take("node") ** Loop(Released) ** (Released \union (Take("node") ** Take("node")))
            ** Drop("node")

InTexts == Take("node") ** Loop(Released) ** Drop("node")

(* The option's node, the option and its list are released, the list of    *)
(* selections is not (188).                                                *)
InSelects ==
  Take("node") ** Loop(Released) ** (Skip \union
    ( Take("node") ** Take("node") ** Released ** Take("node") **
      Drop("node") ** Drop("node") ** Drop("node") ))

(* The document is not released on any way.                                *)
g2_get_input_value ==
  WithRequest(Skip \union
    ( Take("node") **
      ( InInputs \union
        ( InTexts ** InTexts ** (Skip \union InSelects) ) ) ))
-----------------------------------------------------------------------------
GeckoTable ==
  [ setAttribute |-> setAttribute, removeAttribute |-> removeAttribute,
    hasAttribute |-> hasAttribute, stringPropGetter |-> stringPropGetter,
    stringPropSetter |-> stringPropSetter,
    getElementsByTagName |-> getElementsByTagName, nodePropGetter |-> nodePropGetter,
    childGetter |-> childGetter, insertBefore |-> insertBefore,
    replaceChild |-> replaceChild, removeChild |-> removeChild,
    appendChild |-> appendChild, createElement |-> createElement,
    createTextNode |-> createTextNode, getElementByID |-> getElementByID,
    docNodeGetter |-> docNodeGetter,
    g2_get_element_by_id |-> g2_get_element_by_id,
    g2_import_dom_string |-> g2_import_dom_string, g2_get_dom |-> g2_get_dom,
    g2_repaint |-> g2_repaint, g2_hide |-> g2_hide,
    enumdisplaymonitors |-> enumdisplaymonitors,
    g2_get_input_value |-> g2_get_input_value ]
=============================================================================
