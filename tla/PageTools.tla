----------------------------- MODULE PageTools -----------------------------
(***************************************************************************)
(* The handlers of manage_pages and manage_graphics that write.  Widgets   *)
(* live inside their page; groups live in project_meta, keyed by page.     *)
(***************************************************************************)
EXTENDS World

pages == world.pages
groups == world.groups

HasWidget(p, x) == p \in DOMAIN pages /\ x \in DOMAIN pages[p].widgets

-----------------------------------------------------------------------------
(* manage_pages *)
CreatePage(p, n) ==
  IF p \in DOMAIN pages THEN Fail("create_page")
  ELSE Result("create_page",
              [world EXCEPT !.pages =
                 Put(pages, p, [id |-> p, note |-> n, widgets |-> <<>>])],
              {<<"pages", p>>}, {})

SetPage(tool, p, n) ==
  IF p \notin DOMAIN pages THEN Fail(tool)
  ELSE Result(tool, [world EXCEPT !.pages[p].note = n], {<<"pages", p>>}, {})
RenamePage(p, n) == SetPage("rename_page", p, n)
SetPageResolution(p, n) == SetPage("set_page_resolution", p, n)
SetPageBackground(p, n) == SetPage("set_page_background", p, n)

DeletePage(p) ==
  IF p \notin DOMAIN pages THEN Fail("delete_page")
  ELSE Result("delete_page", [world EXCEPT !.pages = Del(pages, p)],
              {}, {<<"pages", p>>})

(* Mutant: the clone's widgets keep the page they were copied from.        *)
ClonePageShallow(p, q) ==
  IF p \notin DOMAIN pages \/ q \in DOMAIN pages THEN Fail("clone_page")
  ELSE Result("clone_page",
              [world EXCEPT !.pages = Put(pages, q, [pages[p] EXCEPT !.id = q])],
              {<<"pages", q>>}, {})

ClonePage(p, q) ==
  IF p \notin DOMAIN pages \/ q \in DOMAIN pages THEN Fail("clone_page")
  ELSE LET own == [x \in DOMAIN pages[p].widgets |->
                     [pages[p].widgets[x] EXCEPT !.page = q]]
       IN  Result("clone_page",
                  [world EXCEPT !.pages =
                     Put(pages, q, [pages[p] EXCEPT !.id = q, !.widgets = own])],
                  {<<"pages", q>>}, {})

PlaceWidget(tool, p, x, expects, n) ==
  IF p \notin DOMAIN pages \/ HasWidget(p, x) THEN Fail(tool)
  ELSE Result(tool,
              [world EXCEPT !.pages[p].widgets =
                 Put(pages[p].widgets, x,
                     [id |-> x, page |-> p, note |-> n, expects |-> expects,
                      bindings |-> <<>>])],
              {<<"widgets", p, x>>}, {})
CreateWidget(p, x, expects, n) == PlaceWidget("create_widget", p, x, expects, n)

EditWidget(tool, p, x, new) ==
  IF ~HasWidget(p, x) THEN Fail(tool)
  ELSE Result(tool, [world EXCEPT !.pages[p].widgets[x] = new],
              {<<"widgets", p, x>>}, {})
SetWidget(tool, p, x, n) ==
  EditWidget(tool, p, x, [pages[p].widgets[x] EXCEPT !.note = n])
MoveWidget(p, x, n) == SetWidget("move_widget", p, x, n)
ResizeWidget(p, x, n) == SetWidget("resize_widget", p, x, n)

Bound(p, x, prop, t) ==
  LET w == pages[p].widgets[x]
  IN  [w EXCEPT !.bindings = Put(w.bindings, prop, t)]

BindPoint(p, x, prop, t) ==
  IF /\ HasWidget(p, x)
     /\ t \in DOMAIN world.points
     /\ \/ pages[p].widgets[x].expects = {}
        \/ world.points[t].type \in pages[p].widgets[x].expects
     /\ prop \notin DOMAIN pages[p].widgets[x].bindings
  THEN EditWidget("bind_point", p, x, Bound(p, x, prop, t))
  ELSE Fail("bind_point")

UpdateWidgetBinding(p, x, prop, t) ==
  IF t \notin DOMAIN world.points THEN Fail("update_widget_binding")
  ELSE EditWidget("update_widget_binding", p, x, Bound(p, x, prop, t))

(* Mutant: the property stays, bound to nothing.                           *)
UnbindToNone(p, x, prop) ==
  EditWidget("unbind_widget_point", p, x, Bound(p, x, prop, None))

UnbindWidgetPoint(p, x, prop) ==
  EditWidget("unbind_widget_point", p, x,
             [pages[p].widgets[x] EXCEPT
                !.bindings = Del(pages[p].widgets[x].bindings, prop)])

(* Handlers that write nothing, whatever their name says.                  *)
PageAnswers == {"set_home_page", "lock_page", "unlock_page", "set_page_permissions"}

-----------------------------------------------------------------------------
(* manage_graphics: shapes and symbols are widgets that expect nothing.    *)
Shapes == {"create_rect", "create_circle", "create_line", "create_text"}
Symbols == {"create_pipe", "create_tank", "create_pump", "create_valve",
            "create_gauge", "create_motor"}
CreateShape(tool, p, x, n) == PlaceWidget(tool, p, x, {}, n)
CreateSymbol(tool, p, x, n) == PlaceWidget(tool, p, x, {}, n)

AllOnPage(p, xs) == p \in DOMAIN pages /\ xs \subseteq DOMAIN pages[p].widgets

ApplyFlowLayout(p, xs, n) ==
  IF ~AllOnPage(p, xs) THEN Fail("apply_flow_layout")
  ELSE LET laid == [x \in DOMAIN pages[p].widgets |->
                      IF x \in xs THEN [pages[p].widgets[x] EXCEPT !.note = n]
                      ELSE pages[p].widgets[x]]
       IN  Result("apply_flow_layout", [world EXCEPT !.pages[p].widgets = laid],
                  {<<"widgets", p, x>> : x \in xs}, {})

GroupWidgets(p, g, xs) ==
  IF ~AllOnPage(p, xs) \/ <<p, g>> \in DOMAIN groups THEN Fail("group_widgets")
  ELSE Result("group_widgets", [world EXCEPT !.groups = Put(groups, <<p, g>>, xs)],
              {<<"groups", p, g>>}, {})

UngroupWidgets(p, g) ==
  IF p \notin DOMAIN pages \/ <<p, g>> \notin DOMAIN groups
  THEN Fail("ungroup_widgets")
  ELSE Result("ungroup_widgets", [world EXCEPT !.groups = Del(groups, <<p, g>>)],
              {}, {<<"groups", p, g>>})

SetWidgetStyle(p, x, n) == SetWidget("set_widget_style", p, x, n)
RotateWidget(p, x, n) == SetWidget("rotate_widget", p, x, n)

DeleteWidget(p, x) ==
  IF ~HasWidget(p, x) THEN Fail("delete_widget")
  ELSE Result("delete_widget",
              [world EXCEPT !.pages[p].widgets = Del(pages[p].widgets, x)],
              {}, {<<"widgets", p, x>>})

GraphicsAnswers == {"align_widgets", "distribute_widgets", "set_widget_animation",
                    "bring_widget_to_front", "send_widget_to_back"}
=============================================================================
