---------------------------- MODULE LibraryNatives ----------------------------
(***************************************************************************)
(* The natives of the extensions that wrap one library each: LDAP, WMI,    *)
(* curl, the driver installer, the deployment extension and the images and *)
(* dialogs of the WIM extension, each as the set of its ways (Natives).    *)
(* Calls that ask another computer, the user or an installer are waits.    *)
(***************************************************************************)
EXTENDS Natives

(* LDAP (ldap.cpp).                                                        *)

js_ldap_connect == WithRequest(Skip \union (Take("handle") ** Hand("handle")))

(* The structure, its type and its list become the object's, and are freed *)
(* by its finalizer; the strings in the list are freed by nobody, as the   *)
(* finalizer's loop runs to the size of a pointer less one, which is none. *)
js_ldap_alloc_mod ==
  WithRequest(Skip \union
    (Take("mem") ** Take("mem") ** Take("mem") ** Loop(Take("mem")) **
     Hand("mem") ** Hand("mem") ** Hand("mem")))

(* The finalizers run in the collector and take a request there.           *)
ldap_obj_finalize == WithRequest(Skip)
mod_obj_finalize == WithRequest(Skip)
results_obj_finalize == WithRequest(Skip)

(* Only the errors end the request (117-130); the normal way returns       *)
(* within it.                                                              *)
js_ldap_bind == Begin ** (End \union (Yield ** Wait))

js_ldap_unbind == WithRequest(Skip)

(* The list of modifications is freed when the server has answered.        *)
js_ldap_add ==
  WithRequest(Skip \union (Take("mem") ** Yield ** Wait ** Drop("mem")))

js_ldap_modify ==
  WithRequest(Skip \union (Take("mem") ** Yield ** Wait ** Drop("mem")))

js_ldap_compare == WithRequest(Skip \union Wait)
js_ldap_delete == WithRequest(Skip \union Wait)

(* The list of attributes, when there is one, is freed on no way out; the  *)
(* result is freed on failure, else it and its record are the object's.    *)
js_ldap_search ==
  WithRequest(Skip \union
    ( (Skip \union Take("mem")) ** Wait **
      (Skip \union (Take("mem") ** Drop("mem")) \union
       (Take("mem") ** Take("mem") ** Hand("mem") ** Hand("mem"))) ))

js_get_next_entry == WithRequest(Skip)
js_get_values == WithRequest(Skip \union (Take("mem") ** Drop("mem")))
js_get_dn == WithRequest(Skip \union (Take("mem") ** Drop("mem")))

(* With good arguments it is never left: its loop goes on to the next      *)
(* character, not the next part, until an address is zero (525-530).       *)
js_explode_dn == WithRequest(Skip)
-----------------------------------------------------------------------------
(* WMI (js_wmi.cpp).  Interfaces count as handles.                         *)

(* The services that cannot be secured are not released (93-98).           *)
wmi_connect ==
  Skip \union
  WithRequest(Skip \union
    (Yield ** Wait **
      (Skip \union Take("handle") \union (Take("handle") ** Hand("handle")))))

wmi_open_class ==
  WithRequest(Skip \union
    (Yield ** Wait ** (Skip \union (Take("handle") ** Hand("handle")))))

wmi_open_instance ==
  WithRequest(Skip \union
    (Yield ** Wait ** (Skip \union (Take("handle") ** Hand("handle")))))

wmi_exec_query ==
  WithRequest(Skip \union
    (Yield ** Wait ** (Skip \union (Take("handle") ** Hand("handle")))))

(* The properties of an object that cannot be listed are asked for ever:   *)
(* the default case does not leave the loop (312-314).                     *)
wmi_enum_props == WithRequest(Skip)

(* The next object is awaited without end before the request begins.       *)
wmi_next_enum ==
  Wait ** (Skip \union (Take("handle") ** Begin ** (Drop("handle") \union Hand("handle")) ** End))

wmi_reset_enum == wmi_next_enum
wmi_getter == WithRequest(Skip)
wmi_release == WithRequest(Skip)
-----------------------------------------------------------------------------
(* curl (js_curl.cpp).                                                     *)

curl_init == Skip \union (Take("handle") ** (Drop("handle") \union Hand("handle")))
curl_setopt == Skip \union WithRequest(Skip)

(* A file that cannot be opened is not NULL: the transfer goes on, cannot  *)
(* write and fails.  So the way out under the test for NULL, where all     *)
(* requests are suspended, is not one.                                     *)
curl_saveas ==
  Skip \union
  WithRequest(Suspend ** (Wait \union (Take("handle") ** Wait ** Drop("handle"))) ** Resume)

(* The transfer is made inside the script's request; the copy of what came *)
(* is forgotten when it cannot become a string (305-309).                  *)
curl_perform ==
  Take("mem") ** Wait **
  ( (Drop("mem") ** WithRequest(Skip)) \union
    (Take("mem") ** Drop("mem") ** WithRequest(Skip \union Hand("mem"))) )
-----------------------------------------------------------------------------
(* Drivers and installers (jsdifx.cpp, msi.cpp).                           *)

install_inf == WithRequest(Skip \union (Yield ** Wait))
uninstall_inf == WithRequest(Skip \union (Yield ** Wait))
get_inf_path ==
  WithRequest(Skip \union (Take("mem") ** Yield ** (Drop("mem") \union Hand("mem"))))

msi_set_internal_ui == WithRequest(Skip)

(* A string is copied, used and freed.  An object's properties are put     *)
(* into a buffer that is not used, by way of one more per property, none   *)
(* freed; then, as for any other value, the pointer used and freed is one  *)
(* nobody has set.                                                         *)
msi_install_product ==
  WithRequest(Skip \union
    (Take("mem") ** Suspend ** Wait ** Resume ** Drop("mem")) \union
    ( (Skip \union (Take("mem") ** Loop(Take("mem")))) **
      Suspend ** Garbage ** Wait ** Resume ** Garbage ))
-----------------------------------------------------------------------------
(* Deployment: signatures (crypto.cpp).                                    *)

(* The file, then its hash; an error in hashing is shown to the user.      *)
HashFile(buffer) ==
  buffer ** Take("mem") ** Loop(Wait) ** Drop("mem") ** Drop("handle")

(* With a certificate, the signature's bytes are forgotten when it cannot  *)
(* be opened, read (with its file) or used (63, 72, 100).                  *)
CheckSignature ==
  LET Forget == Drop("crypt") ** Drop("crypt") IN
  Take("mem") **
  ( Forget \union
    ( Take("handle") ** Take("mem") **
      ( (Drop("mem") ** Forget) \union
        ( Drop("handle") ** Take("mem") ** Drop("mem") ** Take("crypt") ** Drop("mem") **
          Drop("crypt") **
          (Forget \union (Take("crypt") ** Drop("crypt") ** Drop("mem") ** Forget)) ) ) ) \union
    (Take("mem") ** Drop("mem") ** Drop("mem") ** Forget) )

verify_file_signature ==
  WithRequest(Skip) \union
  ( WithRequest(Skip) ** (Skip \union
      ( Take("handle") **
        ( Drop("handle") \union
          ( Take("crypt") **
            ( (Drop("handle") ** Drop("crypt")) \union
              (HashFile(Take("crypt")) ** CheckSignature) ) ) ) )) )

(* The hash is forgotten when the file cannot be opened (168-172).         *)
sign_file ==
  WithRequest(Skip) \union
  ( WithRequest(Skip) ** (Skip \union
      ( Take("handle") ** (Skip \union (Take("mem") ** Drop("mem"))) ** Drop("handle") **
        ( Skip \union
          ( Take("crypt") ** Drop("crypt") \union
            ( Take("crypt") ** Take("crypt") ** Drop("crypt") **
              ( Drop("crypt") \union
                ( Take("crypt") **
                  ( Drop("crypt") \union
                    ( HashFile(Take("handle")) **
                      ( (Drop("crypt") ** Drop("crypt")) \union
                        ( Take("mem") ** Drop("crypt") ** Drop("crypt") **
                          ( Drop("mem") \union
                            ( Take("mem") ** Drop("mem") **
                              (Drop("mem") \union WithRequest(Hand("mem"))) ) ) ) ) ) ) ) ) ) ) ) )) )

value_to_md5 ==
  Skip \union
  ( Take("crypt") ** ( Drop("crypt") \union
    ( Take("crypt") ** Begin ** Take("mem") ** Drop("crypt") ** Drop("crypt") **
      Take("mem") ** Drop("mem") ** Hand("mem") ** End ) ) )
-----------------------------------------------------------------------------
(* Deployment: the network (js_xdeploy.cpp).                               *)

setcomputername == WithRequest(Skip)

(* Bad arguments end the request and do not return (64-67): pointers       *)
(* nobody has set are used, and the request is ended again.                *)
netgetjoinableous ==
  Begin ** (Skip \union (End ** Garbage)) ** Yield ** Wait **
  (Skip \union (Take("mem") ** Drop("mem"))) ** End

(* Only a failure ends the request; a computer that has joined leaves it   *)
(* open (108-112).                                                         *)
netjoindomain == Begin ** (End \union (Yield ** Wait ** (Skip \union End)))

(* The identifier of a member, or none.                                    *)
SidFails ==
  Yield ** Wait ** (Skip \union
    (Take("mem") ** Yield ** Take("mem") ** Wait ** Drop("mem") ** Drop("mem")))

SidFound ==
  (Take("mem") ** Take("mem") ** Drop("mem")) \union
  (Yield ** Wait ** Take("mem") ** Yield ** Take("mem") ** Wait ** Drop("mem"))

(* The loops over the members, which find, add and free them, are taken    *)
(* member by member.                                                       *)
netlocalgroupaddmembers ==
  WithRequest(Skip \union
    ( Take("mem") ** Take("mem") **
      Loop(SidFails \union (SidFound ** Yield ** Drop("mem"))) **
      Drop("mem") ** Drop("mem") ))

(* A code without a text leaves the request open (250-254), and the        *)
(* library of texts stays loaded.                                          *)
GetLastNetErrorMessage ==
  Skip \union
  ( Begin ** (Skip \union Take("handle")) **
    (Skip \union (Take("mem") ** End ** Drop("mem"))) )

(* The window is awaited, for ever if its thread fails, in a variable of   *)
(* create_ui that the thread goes on reading afterwards (progressdlg.cpp). *)
create_ui == Wait ** WithRequest(Skip) ** Garbage

(* What is shown in the window, and whether it is shown, is sent to the    *)
(* thread of the window, which answers when it gets to it (96, 110, 123).  *)
set_static_text == WithRequest(Skip) ** (Skip \union Wait)
set_progress == WithRequest(Skip) ** Wait
show_or_hide == WithRequest(Wait)

(* The window of another process is hidden, if there is one.               *)
close_FirstUXWnd == Skip \union Wait
-----------------------------------------------------------------------------
(* Images and dialogs of the WIM extension (js_wimg.cpp, openfile.cpp).    *)

wimg_create_file ==
  WithRequest(Skip \union (Yield ** (Skip \union (Take("handle") ** Hand("handle")))))

wimg_set_temporary_path == WithRequest(Skip)
wimg_get_image_count == WithRequest(Skip)
wimg_delete_image == WithRequest(Skip \union Yield)

wimg_capture_image ==
  WithRequest(Skip \union
    (Suspend ** Wait ** (Resume \union (Take("handle") ** Resume ** Hand("handle")))))

wimg_load_image ==
  WithRequest(Skip \union (Yield ** (Skip \union (Take("handle") ** Hand("handle")))))

(* The image is applied, then its volume is flushed.                       *)
wimg_apply_image ==
  WithRequest(Skip \union
    ( Suspend ** Wait ** Resume **
      (Skip \union (Take("handle") ** Suspend ** Wait ** Drop("handle") ** Resume)) ))

wimg_image_count_getter == WithRequest(Skip)

(* When there is no information, a pointer nobody has set is copied and    *)
(* freed; what cannot become a string is forgotten (329-340).              *)
wimg_image_info_getter ==
  WithRequest(Garbage \union (Take("mem") ** (Skip \union Drop("mem"))))

wimg_image_info_setter == WithRequest(Skip \union (Take("mem") ** Hand("mem")))

(* A filter that does not fit moves the buffer, and its new address is not *)
(* kept (61).  A dialog that is cancelled leaves the request open (94-99). *)
openfiledlg ==
  Begin ** (End \union
    ( Take("mem") ** (Skip \union Garbage) ** Take("mem") ** Take("mem") **
      Suspend ** Wait ** Drop("mem") ** Resume **
      ( (Drop("mem") ** Drop("mem")) \union (Hand("mem") ** Hand("mem") ** End) ) ))
-----------------------------------------------------------------------------
LibraryTable ==
  [ js_ldap_connect |-> js_ldap_connect, js_ldap_alloc_mod |-> js_ldap_alloc_mod,
    ldap_obj_finalize |-> ldap_obj_finalize, mod_obj_finalize |-> mod_obj_finalize,
    results_obj_finalize |-> results_obj_finalize, js_ldap_bind |-> js_ldap_bind,
    js_ldap_unbind |-> js_ldap_unbind, js_ldap_add |-> js_ldap_add,
    js_ldap_modify |-> js_ldap_modify, js_ldap_compare |-> js_ldap_compare,
    js_ldap_delete |-> js_ldap_delete, js_ldap_search |-> js_ldap_search,
    js_get_next_entry |-> js_get_next_entry, js_get_values |-> js_get_values,
    js_get_dn |-> js_get_dn, js_explode_dn |-> js_explode_dn,
    wmi_connect |-> wmi_connect, wmi_open_class |-> wmi_open_class,
    wmi_open_instance |-> wmi_open_instance, wmi_exec_query |-> wmi_exec_query,
    wmi_enum_props |-> wmi_enum_props, wmi_next_enum |-> wmi_next_enum,
    wmi_reset_enum |-> wmi_reset_enum, wmi_getter |-> wmi_getter,
    wmi_release |-> wmi_release,
    curl_init |-> curl_init, curl_setopt |-> curl_setopt, curl_saveas |-> curl_saveas,
    curl_perform |-> curl_perform,
    install_inf |-> install_inf, uninstall_inf |-> uninstall_inf,
    get_inf_path |-> get_inf_path, msi_set_internal_ui |-> msi_set_internal_ui,
    msi_install_product |-> msi_install_product,
    verify_file_signature |-> verify_file_signature, sign_file |-> sign_file,
    value_to_md5 |-> value_to_md5,
    setcomputername |-> setcomputername, netgetjoinableous |-> netgetjoinableous,
    netjoindomain |-> netjoindomain, netlocalgroupaddmembers |-> netlocalgroupaddmembers,
    GetLastNetErrorMessage |-> GetLastNetErrorMessage,
    create_ui |-> create_ui, set_static_text |-> set_static_text,
    set_progress |-> set_progress, show_or_hide |-> show_or_hide,
    close_FirstUXWnd |-> close_FirstUXWnd,
    wimg_create_file |-> wimg_create_file,
    wimg_set_temporary_path |-> wimg_set_temporary_path,
    wimg_get_image_count |-> wimg_get_image_count, wimg_delete_image |-> wimg_delete_image,
    wimg_capture_image |-> wimg_capture_image, wimg_load_image |-> wimg_load_image,
    wimg_apply_image |-> wimg_apply_image,
    wimg_image_count_getter |-> wimg_image_count_getter,
    wimg_image_info_getter |-> wimg_image_info_getter,
    wimg_image_info_setter |-> wimg_image_info_setter, openfiledlg |-> openfiledlg ]
=============================================================================
