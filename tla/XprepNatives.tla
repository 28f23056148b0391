----------------------------- MODULE XprepNatives -----------------------------
(***************************************************************************)
(* The natives of the host itself that keep no state of their own: the     *)
(* registry (registry.cpp), files and directories (basicfile.cpp,          *)
(* findfiles.cpp), the Windows helpers (win32s.cpp) and the services       *)
(* (exec.cpp), and LoadJSLib (nativeimports.cpp), each as the set of its   *)
(* ways (Natives).                                                         *)
(***************************************************************************)
EXTENDS Natives

(* Registry.  The key that is opened becomes the object's.                 *)

(* Bad arguments and a key that cannot be had return with the request      *)
(* open (45, 53); a key the object had before is closed.                   *)
reg_create_key ==
  Begin ** (Skip \union
    (Yield ** (Skip \union (Take("handle") ** Hand("handle") ** End))))

(* Mutant: a key that is not there is not told from one that is, and no    *)
(* object gets it.                                                         *)
OpenKeyForgets ==
  Begin ** (Skip \union (Yield ** (Skip \union (Take("handle") ** End))))

(* The same two ways out (83, 92).                                         *)
reg_open_key ==
  Begin ** (Skip \union
    (Yield ** (Skip \union (Take("handle") ** Hand("handle") ** End))))

(* A key that is not open, too few and bad arguments end the request; then *)
(* the data are copied, a list of strings by way of a second block, and    *)
(* freed outside the request.                                              *)
reg_set_value ==
  WithRequest(Skip) \union
  ( WithRequest(Take("mem") \union (Take("mem") ** Take("mem") ** Drop("mem")))
      ** Drop("mem") )

(* A key that is not open and a missing name leave the request open.       *)
reg_delete_value == Begin ** (Skip \union End)

(* The same two (243, 248); past them a second request is begun, and only  *)
(* one is ended, or none when the value is not there (264).  A list of     *)
(* strings is never left: its loop tests a pointer for zero (290).         *)
reg_query_value ==
  Begin ** (Skip \union
    (Begin ** Take("mem") ** (Drop("mem") \union (End ** Drop("mem")))))

(* A key without values returns with the request open (331-332).           *)
reg_enum_values ==
  Skip \union (Begin ** (Skip \union (Take("mem") ** End ** Drop("mem"))))

(* A key without subkeys likewise (366-367).                               *)
reg_enum_keys ==
  Skip \union (Begin ** (Skip \union (Take("mem") ** End ** Drop("mem"))))

(* Deletes a key: at once, or its subkeys first.  When it cannot be opened *)
(* the test is made on a variable nobody has set (402-405).                *)
DelKeyWith(subkeys) ==
  Skip \union Garbage \union
    (Take("handle") ** Take("mem") ** Loop(subkeys) ** Drop("mem") ** Drop("handle"))

RegDelKeyRecurse == DelKeyWith(DelKeyWith(Skip))

reg_delete_key == Begin ** (Skip \union (End ** RegDelKeyRecurse))

reg_delete_subkey == Skip \union (Begin ** (Skip \union (End ** RegDelKeyRecurse)))

(* The token is forgotten when a privilege cannot be looked up or raised   *)
(* (499-512); the caller closes the one it gets.                           *)
AdjustPrivsForHiveOp(use) ==
  Take("mem") ** (Drop("mem") \union
    (Take("handle") ** Drop("mem") ** (Skip \union use)))

reg_load_hive ==
  WithRequest(Skip) \union (WithRequest(Skip) ** AdjustPrivsForHiveOp(Drop("handle")))

reg_unload_hive == Begin ** (Skip \union (End ** AdjustPrivsForHiveOp(Drop("handle"))))

reg_close_key == Skip
reg_flush_key == Skip
-----------------------------------------------------------------------------
(* Files and directories.  Bad arguments of the first two leave the        *)
(* request open (30, 47).                                                  *)
fs_copy_file == Begin ** (Skip \union End)
fs_move_file == Begin ** (Skip \union End)
fs_delete_file == WithRequest(Skip)
fs_create_directory == WithRequest(Skip)
fs_remove_directory == WithRequest(Skip)
file_get_attributes == WithRequest(Skip)
file_set_attributes == WithRequest(Skip)

(* The text is converted unless it is written as it is.                    *)
file_set_contents ==
  WithRequest(Skip \union
    (Take("handle") ** (Skip \union (Take("mem") ** Drop("mem"))) ** Drop("handle")))

(* A file read in full becomes a string; the buffer is freed when the read *)
(* or the string fails.  (It is cleared before it is tested for NULL.)     *)
file_get_contents ==
  WithRequest(Skip \union
    (Take("handle") ** Take("mem") ** Drop("handle") ** (Drop("mem") \union Hand("mem"))))

(* A missing pattern leaves the request open (61).  The first match's      *)
(* handle becomes the new object's.                                        *)
find_file ==
  Begin ** (Skip \union
    (Yield ** (End \union (Take("handle") ** Hand("handle") ** End))))
-----------------------------------------------------------------------------
(* Windows helpers.                                                        *)

win32_messagebox == WithRequest(Skip \union (Suspend ** Wait ** Resume))
win32_getlasterror == WithRequest(Skip)

(* LogonUser asks the domain, inside the request.                          *)
win32_impersonateuser ==
  WithRequest(Skip \union
    (Yield ** Wait ** (Skip \union (Take("handle") ** Drop("handle")))))

win32_reverttoself == Skip

(* When Windows has no text for the code, the buffer nobody has set is     *)
(* copied and freed.                                                       *)
win32_getlasterrormsg ==
  Begin ** ((Garbage ** End) \union (Take("mem") ** End ** Drop("mem")))

(* For all of Windows the variable is set in the registry, and every       *)
(* window is told, inside the request.  Whether the key was opened is read *)
(* from a variable that a failure does not set (137-138).                  *)
win32_setenv ==
  WithRequest(Skip \union Garbage \union
    (Take("handle") **
       (Skip \union (Take("mem") ** Take("mem") ** Drop("mem") ** Drop("mem"))) **
       Drop("handle") ** Wait))

win32_getenv ==
  WithRequest(Skip \union (Take("mem") ** (Drop("mem") \union Hand("mem"))))

win32_setcurrentdirectory == WithRequest(Skip)
win32_getcurrentdirectory == Take("mem") ** Begin ** Hand("mem") ** End
win32_setdlldirectory == WithRequest(Skip)

(* Mutant: the script sleeps inside its request.                           *)
SleepInRequest == Skip \union WithRequest(Wait)

win32_sleep == Skip \union WithRequest(Suspend ** Wait ** Resume)
-----------------------------------------------------------------------------
(* Services.  Neither native begins a request; the database stays open     *)
(* when the service cannot be opened, both when it does not take the       *)
(* control (238-242, 273-277).  The state is polled from inside whatever   *)
(* request the script is in.                                               *)
njord_control_service ==
  Skip \union
  (Take("handle") ** (Skip \union
    (Take("handle") ** (Skip \union
      (Loop(Wait) ** Drop("handle") ** Drop("handle"))))))

njord_query_service_status ==
  Skip \union
  (Take("handle") ** (Drop("handle") \union
    (Take("handle") ** Drop("handle") ** Drop("handle"))))
-----------------------------------------------------------------------------
(* Script files.  What LoadFile does about a signature, the contents aside *)
(* (132-196): nothing without a key, refuse or ask, say that it cannot be  *)
(* parsed, or check it; a file without a block that the user wants all the *)
(* same makes it search from NULL.                                         *)
FileChecked ==
  Skip \union Wait \union ((Skip \union Wait) ** Garbage)
  \union ((Skip \union (Take("mem") ** Drop("mem"))) ** Wait)
  \union (Take("mem") ** Take("crypt") ** Drop("mem") ** Drop("crypt")
            ** (Skip \union Wait))

(* LoadFile with its file open: it is too large, there is no memory for it *)
(* and it stays open, or it is read, recoded and checked (108-196).  The   *)
(* contents are freed there or by the caller.                              *)
FileRead(close) ==
  close \union Skip \union
  (Take("mem") ** close ** (Skip \union (Take("mem") ** Drop("mem")))
    ** FileChecked ** Drop("mem"))

(* A file that is not there is not noticed, as the test is for NULL (105): *)
(* its size is what nobody has set.  The user is asked, and the script     *)
(* evaluated, inside the request.                                          *)
load_js_lib ==
  WithRequest((Take("handle") ** FileRead(Drop("handle")))
              \union (Garbage ** FileRead(Skip)))
-----------------------------------------------------------------------------
XprepTable ==
  [ reg_create_key |-> reg_create_key, reg_open_key |-> reg_open_key,
    reg_set_value |-> reg_set_value, reg_delete_value |-> reg_delete_value,
    reg_query_value |-> reg_query_value, reg_enum_values |-> reg_enum_values,
    reg_enum_keys |-> reg_enum_keys, reg_delete_key |-> reg_delete_key,
    reg_delete_subkey |-> reg_delete_subkey, reg_load_hive |-> reg_load_hive,
    reg_unload_hive |-> reg_unload_hive, reg_close_key |-> reg_close_key,
    reg_flush_key |-> reg_flush_key,
    fs_copy_file |-> fs_copy_file, fs_move_file |-> fs_move_file,
    fs_delete_file |-> fs_delete_file, fs_create_directory |-> fs_create_directory,
    fs_remove_directory |-> fs_remove_directory,
    file_get_attributes |-> file_get_attributes,
    file_set_attributes |-> file_set_attributes,
    file_set_contents |-> file_set_contents, file_get_contents |-> file_get_contents,
    find_file |-> find_file,
    win32_messagebox |-> win32_messagebox, win32_getlasterror |-> win32_getlasterror,
    win32_impersonateuser |-> win32_impersonateuser,
    win32_reverttoself |-> win32_reverttoself,
    win32_getlasterrormsg |-> win32_getlasterrormsg, win32_setenv |-> win32_setenv,
    win32_getenv |-> win32_getenv, win32_setcurrentdirectory |-> win32_setcurrentdirectory,
    win32_getcurrentdirectory |-> win32_getcurrentdirectory,
    win32_setdlldirectory |-> win32_setdlldirectory, win32_sleep |-> win32_sleep,
    njord_control_service |-> njord_control_service,
    njord_query_service_status |-> njord_query_service_status,
    load_js_lib |-> load_js_lib ]
=============================================================================
