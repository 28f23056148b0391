----------------------------- MODULE NativeFaults -----------------------------
(***************************************************************************)
(* Which natives keep the rules about requests and resources on every way  *)
(* out of them, and which are known not to (Natives): called by a script   *)
(* as deep in requests as the loader may leave it (NativeTable).           *)
(***************************************************************************)
EXTENDS NativeTable, XprepNatives, LibraryNatives, GeckoNatives

AllNatives == XprepTable @@ LibraryTable @@ GeckoTable

(* Every LoadNative that fails may leave one request more.                 *)
FaultsAt ==
  [d \in 0..(MaxLoads + 1) |-> [n \in DOMAIN AllNatives |-> Faults(d, AllNatives[n])]]

Has(fault, d) == {n \in DOMAIN AllNatives : fault \in FaultsAt[d][n]}

(* Natives that return with one request more, or fewer, than they found:   *)
(* most when their arguments are bad or there is nothing to return.        *)
RequestLeftOpen ==
  { "reg_create_key", "reg_open_key", "reg_delete_value", "reg_query_value",
    "reg_enum_values", "reg_enum_keys", "reg_delete_key", "reg_delete_subkey",
    "reg_unload_hive", "fs_copy_file", "fs_move_file", "find_file",
    "js_ldap_bind", "netgetjoinableous", "netjoindomain", "GetLastNetErrorMessage",
    "openfiledlg", "createElement", "createTextNode", "getElementByID" }

(* Natives that wait for another computer, an installer, the thread of a   *)
(* window or the lock of the documents in a request; those that show a     *)
(* dialog of their own, sleep, save a transfer or capture an image suspend *)
(* it.                                                                     *)
WaitsInRequest ==
  { "win32_impersonateuser", "win32_setenv", "njord_control_service",
    "js_ldap_bind", "js_ldap_add", "js_ldap_modify", "js_ldap_compare",
    "js_ldap_delete", "js_ldap_search",
    "wmi_connect", "wmi_open_class", "wmi_open_instance", "wmi_exec_query",
    "wmi_next_enum", "wmi_reset_enum", "curl_perform",
    "install_inf", "uninstall_inf", "verify_file_signature", "sign_file",
    "netgetjoinableous", "netjoindomain", "netlocalgroupaddmembers", "create_ui",
    "set_static_text", "set_progress", "show_or_hide", "close_FirstUXWnd",
    "setAttribute", "removeAttribute", "stringPropSetter",
    "insertBefore", "replaceChild", "removeChild", "appendChild",
    "g2_import_dom_string", "g2_get_dom", "g2_repaint", "g2_hide", "load_js_lib" }

(* Those of them that wait outside a request of their own: in that of the  *)
(* script, if it has one.                                                  *)
WaitsInCallers ==
  { "njord_control_service", "wmi_next_enum", "wmi_reset_enum", "curl_perform",
    "verify_file_signature", "sign_file", "create_ui", "set_static_text", "set_progress",
    "close_FirstUXWnd", "setAttribute", "removeAttribute", "g2_repaint", "g2_hide" }

(* Natives that forget a resource on some way out, by kind.                *)
Forgets ==
  [ mem |-> { "js_ldap_alloc_mod", "js_ldap_search", "curl_perform",
              "msi_install_product", "verify_file_signature",
              "wimg_image_info_getter" },
    handle |-> { "reg_load_hive", "reg_unload_hive", "njord_control_service",
                 "wmi_connect", "verify_file_signature", "GetLastNetErrorMessage",
                 "load_js_lib" },
    crypt |-> {"sign_file"},
    node |-> {"g2_get_input_value"} ]

(* Natives that use a pointer nobody has set.                              *)
UsesGarbage ==
  { "reg_delete_key", "reg_delete_subkey", "win32_getlasterrormsg", "win32_setenv",
    "msi_install_product", "netgetjoinableous", "create_ui", "wimg_image_info_getter",
    "openfiledlg", "load_js_lib" }

(* Natives that make an object for a node without a reference for it.      *)
OwnsNoNode ==
  { "getElementsByTagName", "nodePropGetter", "childGetter", "insertBefore",
    "replaceChild", "removeChild", "appendChild", "createElement", "createTextNode",
    "getElementByID", "docNodeGetter", "g2_get_dom" }
-----------------------------------------------------------------------------
(* However deep in requests the loader has left a script, every native     *)
(* gives back the requests it begins, yields and ends them only inside     *)
(* one, and suspends them while it waits, on every way out, but for the    *)
(* natives named: those keep the collector waiting for as long as their    *)
(* script lives, or as they wait.                                          *)
NativesKeepRequests ==
  \A s \in MayCall :
    LET d == depth[s]
        EndsTwice == {"netgetjoinableous"}
    IN IF d = 0
       THEN /\ Has("request", d) = RequestLeftOpen \ EndsTwice
            /\ Has("outside", d) = EndsTwice
            /\ Has("waits", d) = WaitsInRequest \ WaitsInCallers
       ELSE /\ Has("request", d) = RequestLeftOpen
            /\ Has("outside", d) = {}
            /\ Has("waits", d) = WaitsInRequest

(* Every native frees or hands on what it takes exactly once on every way  *)
(* out, but for the natives named: what those forget is lost until the     *)
(* process ends, and a node handed on without a reference is freed while   *)
(* an object still leads to it.                                            *)
NativesFreeOnce ==
  \A s \in MayCall :
    LET d == depth[s] IN
      /\ \A r \in Resources : Has(r, d) = Forgets[r]
      /\ Has("garbage", d) = UsesGarbage
      /\ Has("dangling", d) = OwnsNoNode
=============================================================================
